---- MODULE Spec2Model ----
(***************************************************************************)
(* A model of the chunking, embedding and retrieval engine of the RAG      *)
(* pipeline educator: the FastAPI backend (src/backend/python/main.py) and *)
(* the Flask backend (src/python_backend/app.py).                          *)
(*                                                                         *)
(* Texts are sequences of one-character strings.  Python's 0-based         *)
(* offsets are kept as they are in the code; only the indexing of a        *)
(* sequence adds one.                                                      *)
(***************************************************************************)
EXTENDS Integers, Sequences, FiniteSets, TLC

VARIABLES
    fn,          \* the chunking function that is running
    text,        \* its text argument
    chunk_size,  \* its chunk_size / max_size argument
    overlap,     \* its overlap argument
    child_size,  \* the child_size argument of chunk_hierarchical
    pos,         \* the loop variable: i (main.py:139), start (app.py:306)
    chunk_id,    \* the iteration counter of chunk_by_fixed_size (app.py:307)
    chunks,      \* the chunk list built so far / returned
    pc,          \* position of the running function: "loop" or "done"
    bedrock_available,     \* the module flag of app.py:59 / app.py:63
    processor_chunks,      \* processor.chunks (app.py:264, app.py:581)
    processor_embeddings,  \* processor.embeddings (app.py:265, app.py:582)
    req,                   \* per caller: the request the Flask server is handling
    started,               \* requests received by the Flask server so far
    chunks_call,           \* history: the request that stored processor.chunks
    embeddings_call,       \* history: the request that stored processor.embeddings
    args,                  \* the arguments of the operation that was invoked last
    result                 \* what that operation returned

chunkVars == <<fn, text, chunk_size, overlap, child_size, pos, chunk_id, chunks, pc>>
sessionVars == <<bedrock_available, processor_chunks, processor_embeddings, req,
                 started, chunks_call, embeddings_call>>
callVars == <<args, result>>
vars == <<chunkVars, sessionVars, callVars>>

----------------------------------------------------------------------------
(* Bounds of the model *)

\* longest enumerated text, in characters
MaxLen == 4
\* largest enumerated chunk_size
MaxSize == 4
\* largest enumerated overlap
MaxOverlap == 4
\* iterations of a loop that the model follows before it stops following it
MaxIter == 12

----------------------------------------------------------------------------
(* Python string primitives *)

Min(a, b) == IF a < b THEN a ELSE b
Max(a, b) == IF a > b THEN a ELSE b

\* the characters texts are drawn from: two letters and two kinds of whitespace
Alphabet == {"a", "b", " ", "\n"}

\* str.isspace for one character
IsSpace(c) == c \in {" ", "\n"}

\* every text of at most n characters
RECURSIVE TextsOfLen(_)
TextsOfLen(n) ==
    IF n = 0 THEN {<<>>}
    ELSE {Append(t, c) : t \in TextsOfLen(n - 1), c \in Alphabet}

Texts(n) == UNION {TextsOfLen(k) : k \in 0..n}

\* s[a:b] of Python: negative indices count from the end, both are clamped
PySlice(s, a, b) ==
    LET n  == Len(s)
        na == IF a < 0 THEN Max(a + n, 0) ELSE Min(a, n)
        nb == IF b < 0 THEN Max(b + n, 0) ELSE Min(b, n)
    IN  IF na >= nb THEN <<>> ELSE SubSeq(s, na + 1, nb)

\* the least and the greatest element of a non-empty set of integers
SetMin(S) == CHOOSE x \in S : \A y \in S : x <= y
SetMax(S) == CHOOSE x \in S : \A y \in S : y <= x

\* s.lstrip(), s.rstrip(), s.strip(): drop leading / trailing whitespace
LStrip(s) ==
    LET ns == {k \in 1..Len(s) : ~IsSpace(s[k])}
    IN  IF ns = {} THEN <<>> ELSE SubSeq(s, SetMin(ns), Len(s))

RStrip(s) ==
    LET ns == {k \in 1..Len(s) : ~IsSpace(s[k])}
    IN  IF ns = {} THEN <<>> ELSE SubSeq(s, 1, SetMax(ns))

Strip(s) == RStrip(LStrip(s))

\* len(s.split()): the number of whitespace-delimited tokens of s
SplitCount(s) ==
    Cardinality({k \in 1..Len(s) :
                    /\ ~IsSpace(s[k])
                    /\ (k = 1 \/ IsSpace(s[k - 1]))})

\* s.rfind(' '): the 0-based index of the last space, -1 when there is none
RFindSpace(s) ==
    LET hits == {k \in 1..Len(s) : s[k] = " "}
    IN  IF hits = {} THEN -1 ELSE SetMax(hits) - 1

\* s.find(sub, from): the 0-based index of the first occurrence of sub at or
\* after from, -1 when there is none
Find(s, sub, from) ==
    LET hits == {k \in from..(Len(s) - Len(sub)) :
                    SubSeq(s, k + 1, k + Len(sub)) = sub}
    IN  IF hits = {} THEN -1 ELSE SetMin(hits)

----------------------------------------------------------------------------
(* The NLTK tokenizers, as the two backends call them.  The model covers     *)
(* texts whose only punctuation is a full stop that ends a word of two or   *)
(* more letters: there the Punkt tokenizer breaks after every full stop     *)
(* that whitespace follows, and the Treebank tokenizer splits the full stop *)
(* that ends a sentence from its word.                                      *)

\* the offsets (1-based) of the full stops after which a sentence ends
SentenceBreaks(t) ==
    {k \in 1..(Len(t) - 1) :
        /\ t[k] = "."
        /\ IsSpace(t[k + 1])
        /\ \E j \in (k + 1)..Len(t) : ~IsSpace(t[j])}

\* nltk.sent_tokenize(t): the sentences of t from the 1-based offset `from`
RECURSIVE SentencesFrom(_, _)
SentencesFrom(t, from) ==
    LET later == {k \in SentenceBreaks(t) : k >= from}
    IN  IF later = {}
        THEN IF RStrip(SubSeq(t, from, Len(t))) = <<>> THEN <<>>
             ELSE <<RStrip(SubSeq(t, from, Len(t)))>>
        ELSE LET k   == SetMin(later)
                 nxt == SetMin({j \in (k + 1)..Len(t) : ~IsSpace(t[j])})
             IN  <<SubSeq(t, from, k)>> \o SentencesFrom(t, nxt)

SentTokenize(t) == SentencesFrom(t, 1)

\* the Treebank tokenizer splits a final full stop from the word it ends
FinalStopSplit(sent) ==
    LET r == RStrip(sent)
    IN  /\ Len(r) >= 2
        /\ r[Len(r)] = "."
        /\ r[Len(r) - 1] # "."
        /\ ~IsSpace(r[Len(r) - 1])

\* the sum of f over the elements of a sequence
RECURSIVE SumTokens(_)
SumTokens(sents) ==
    IF sents = <<>> THEN 0
    ELSE SplitCount(Head(sents))
         + (IF FinalStopSplit(Head(sents)) THEN 1 ELSE 0)
         + SumTokens(Tail(sents))

\* len(word_tokenize(s)): the Treebank tokens of every sentence of s
WordTokenizeCount(s) == SumTokens(SentTokenize(s))

----------------------------------------------------------------------------
(* chunk_fixed_size of the FastAPI backend, one action per loop iteration *)

\* the stride without its floor of 1
FixedStepNoFloor(cs, ov) == cs - ov

\* the stride when the overlap is forgotten
FixedStepNoOverlap(cs, ov) == cs

\* step = max(1, chunk_size - overlap)
FixedStepOf(cs, ov) == Max(1, cs - ov)

\* the Chunk built at main.py:144-151; parent_id, is_child and children_ids
\* keep the default None of the Chunk model (main.py:85-87)
FixedChunk(n, content, i, end) ==
    [id           |-> <<"chunk", n>>,
     content      |-> content,
     start        |-> i,
     end          |-> end,
     word_count   |-> SplitCount(content),
     char_count   |-> Len(content),
     parent_id    |-> "None",
     is_child     |-> "None",
     children_ids |-> "None"]

\* one iteration of `for i in range(0, len(text), step)`
FixedIter ==
    /\ fn = "chunk_fixed_size"
    /\ pc = "loop"
    /\ pos < Len(text)
    /\ LET end     == Min(pos + chunk_size, Len(text))
           content == PySlice(text, pos, end)
       IN  /\ chunks' = IF Strip(content) # <<>>
                        THEN Append(chunks,
                                    FixedChunk(Len(chunks) + 1, content, pos, end))
                        ELSE chunks
           /\ IF end >= Len(text)
              THEN pc' = "done" /\ pos' = pos
              ELSE pc' = "loop" /\ pos' = pos + FixedStepOf(chunk_size, overlap)
    /\ UNCHANGED <<fn, text, chunk_size, overlap, child_size, chunk_id>>
    /\ UNCHANGED sessionVars
    /\ UNCHANGED callVars

\* the range is exhausted: the loop ends without a break
FixedExit ==
    /\ fn = "chunk_fixed_size"
    /\ pc = "loop"
    /\ pos >= Len(text)
    /\ pc' = "done"
    /\ UNCHANGED <<fn, text, chunk_size, overlap, child_size, pos, chunk_id, chunks>>
    /\ UNCHANGED sessionVars
    /\ UNCHANGED callVars

\* chunk_fixed_size(text, chunk_size, overlap) run to its end, from i on
RECURSIVE FixedLoop(_, _, _, _, _)
FixedLoop(t, cs, ov, i, acc) ==
    IF i >= Len(t) THEN acc
    ELSE LET end     == Min(i + cs, Len(t))
             content == PySlice(t, i, end)
             acc2    == IF Strip(content) # <<>>
                        THEN Append(acc, FixedChunk(Len(acc) + 1, content, i, end))
                        ELSE acc
         IN  IF end >= Len(t) THEN acc2
             ELSE FixedLoop(t, cs, ov, i + FixedStepOf(cs, ov), acc2)

ChunkFixedSize(t, cs, ov) == FixedLoop(t, cs, ov, 0, <<>>)

----------------------------------------------------------------------------
(* chunk_by_fixed_size of the Flask backend, one action per loop iteration *)

\* the chunk dict built at app.py:321-329
FlaskFixedChunk(chunk_text, start, end) ==
    [id         |-> <<"uuid", start, end>>,
     content    |-> Strip(chunk_text),
     start      |-> start,
     end        |-> end,
     word_count |-> WordTokenizeCount(chunk_text),
     char_count |-> Len(Strip(chunk_text))]

\* end after the word-boundary adjustment of app.py:310-318
FlaskFixedEnd(t, start, cs) ==
    LET end0       == start + cs
        last_space == RFindSpace(PySlice(t, start, end0))
    IN  IF end0 < Len(t) /\ 5 * last_space > 4 * cs  \* last_space > cs * 0.8
        THEN start + last_space
        ELSE end0

\* start = end - overlap
FlaskNextStart(end, ov) == end - ov

\* one iteration of `while start < len(text)`
FlaskFixedIter ==
    /\ fn = "chunk_by_fixed_size"
    /\ pc = "loop"
    /\ pos < Len(text)
    /\ chunk_id < MaxIter
    /\ LET end        == FlaskFixedEnd(text, pos, chunk_size)
           chunk_text == PySlice(text, pos, end)
           nxt        == FlaskNextStart(end, overlap)
       IN  /\ chunks' = IF Strip(chunk_text) # <<>>
                        THEN Append(chunks, FlaskFixedChunk(chunk_text, pos, end))
                        ELSE chunks
           /\ pos' = nxt
           /\ chunk_id' = chunk_id + 1
           /\ pc' = IF nxt >= Len(text) THEN "done" ELSE "loop"
    /\ UNCHANGED <<fn, text, chunk_size, overlap, child_size>>
    /\ UNCHANGED sessionVars
    /\ UNCHANGED callVars

\* the while condition fails on entry (empty text)
FlaskFixedExit ==
    /\ fn = "chunk_by_fixed_size"
    /\ pc = "loop"
    /\ pos >= Len(text)
    /\ pc' = "done"
    /\ UNCHANGED <<fn, text, chunk_size, overlap, child_size, pos, chunk_id, chunks>>
    /\ UNCHANGED sessionVars
    /\ UNCHANGED callVars

----------------------------------------------------------------------------
(* The fixed-size chunkers on every small text and parameter choice *)

\* Python's None and a present value, as a sequence of at most one element
None == <<>>
Some(x) == <<x>>

\* the callers whose requests the Flask server handles, one thread each
Callers == {"c1", "c2"}

\* a caller with no request in the server and no response received yet; the
\* fields are the locals of process_document and of search_chunks, `status`
\* is the HTTP status of the last response, and call, scores_from,
\* results_from and backend_calls are history: the number of the request,
\* the request whose stored embeddings gave the scores, the requests whose
\* stored chunks were put into the results, and the number of times the
\* request has called BedrockService.get_bedrock_embedding
NoRequest ==
    [kind            |-> "none",
     pc              |-> "idle",
     status          |-> 0,
     call            |-> 0,
     chunks          |-> <<>>,
     embeddings_data |-> None,
     top_k           |-> 0,
     query_embedding |-> None,
     similarities    |-> <<>>,
     initial_k       |-> 0,
     top_indices     |-> <<>>,
     results         |-> <<>>,
     scores_from     |-> 0,
     results_from    |-> {},
     backend_calls   |-> 0]

\* no chunking function has been called yet
ChunkerIdle ==
    /\ fn = "none"
    /\ text = <<>>
    /\ chunk_size = 1
    /\ overlap = 0
    /\ child_size = 1
    /\ pos = 0
    /\ chunk_id = 0
    /\ chunks = <<>>
    /\ pc = "idle"

\* the global DocumentProcessor as constructed, and no request received
SessionStart ==
    /\ processor_chunks = <<>>
    /\ processor_embeddings = None
    /\ req = [c \in Callers |-> NoRequest]
    /\ started = 0
    /\ chunks_call = 0
    /\ embeddings_call = 0

\* no call has been made yet; the Bedrock client is not configured
InitIdle ==
    /\ ChunkerIdle
    /\ SessionStart
    /\ bedrock_available = FALSE
    /\ args = None
    /\ result = None

\* a caller invokes one of the two fixed-size chunkers
CallFixed ==
    /\ pc = "idle"
    /\ fn' \in {"chunk_fixed_size", "chunk_by_fixed_size"}
    /\ text' \in Texts(MaxLen)
    /\ chunk_size' \in 1..MaxSize
    /\ overlap' \in 0..MaxOverlap
    /\ UNCHANGED child_size
    /\ UNCHANGED sessionVars
    /\ UNCHANGED callVars
    /\ pos' = 0
    /\ chunk_id' = 0
    /\ chunks' = <<>>
    /\ pc' = "loop"

RunFixed == FixedIter \/ FixedExit \/ FlaskFixedIter \/ FlaskFixedExit

NextFixed == CallFixed \/ RunFixed

SpecFixed == InitIdle /\ [][NextFixed]_vars

----------------------------------------------------------------------------
(* Claims about the fixed-size chunkers *)

\* the last n characters of s, and its first n characters
Suffix(s, n) == SubSeq(s, Len(s) - Min(n, Len(s)) + 1, Len(s))
Prefix(s, n) == SubSeq(s, 1, Min(n, Len(s)))

\* t holds a run of n consecutive whitespace characters
HasBlankRun(t, n) ==
    \E k \in 1..(Len(t) - n + 1) : \A j \in k..(k + n - 1) : IsSpace(t[j])

\* C3: chunk_fixed_size of the FastAPI backend terminates for every text,
\* chunk_size >= 1 and overlap >= 0 (overlap >= chunk_size included): every
\* iteration that does not end the loop advances the window start by
\* max(1, chunk_size - overlap) >= 1, the start of a running loop stays below
\* the text length, a running loop can always take its next step, and only
\* the last chunk can end at the text length.
C3_FixedSizeTerminates ==
    /\ [][(fn = "chunk_fixed_size" /\ pc = "loop" /\ pc' = "loop")
            => (pos' = pos + Max(1, chunk_size - overlap) /\ pos' > pos)]_vars
    /\ [][(fn = "chunk_fixed_size" /\ pc = "loop"
            /\ pos + chunk_size >= Len(text)) => pc' = "done"]_vars
    /\ [](fn = "chunk_fixed_size" /\ pc = "loop"
            => (pos <= Len(text) /\ ENABLED RunFixed))
    /\ [](fn = "chunk_fixed_size"
            => \A k \in 1..(Len(chunks) - 1) : chunks[k].end < Len(text))

C3_Witness ==
    /\ fn = "chunk_fixed_size"
    /\ overlap >= chunk_size
    /\ pc = "done"
    /\ Len(chunks) >= 3
    /\ chunks[Len(chunks)].end = Len(text)

\* C4: chunk_by_fixed_size of the Flask backend terminates for every text,
\* chunk_size >= 1 and overlap >= 0: the window start strictly increases on
\* every loop iteration, and no window follows one whose end is at or past
\* the text length.
C4_FlaskFixedTerminates ==
    /\ [][(fn = "chunk_by_fixed_size" /\ pc = "loop" /\ chunk_id' # chunk_id)
            => pos' > pos]_vars
    /\ [][(fn = "chunk_by_fixed_size" /\ pc = "loop" /\ chunk_id' # chunk_id
           /\ FlaskFixedEnd(text, pos, chunk_size) >= Len(text))
            => pc' = "done"]_vars

\* C5 as stated: for every text, chunk_size >= 1 and overlap >= 0, two
\* consecutive chunks of chunk_fixed_size that both have length chunk_size
\* share `overlap` characters: the suffix of the first is the prefix of the
\* second.
C5_OverlapAnySize ==
    (fn = "chunk_fixed_size") =>
        \A k \in 1..(Len(chunks) - 1) :
            (Len(chunks[k].content) = chunk_size
                /\ Len(chunks[k + 1].content) = chunk_size)
            => Suffix(chunks[k].content, overlap)
                 = Prefix(chunks[k + 1].content, overlap)

\* C5 amended: the same, for overlap < chunk_size and a text without a run of
\* chunk_size whitespace characters (so that no window between two chunks is
\* dropped).
C5_OverlapInvariant ==
    (fn = "chunk_fixed_size" /\ overlap < chunk_size
        /\ ~HasBlankRun(text, chunk_size)) =>
        \A k \in 1..(Len(chunks) - 1) :
            (Len(chunks[k].content) = chunk_size
                /\ Len(chunks[k + 1].content) = chunk_size)
            => /\ Len(Suffix(chunks[k].content, overlap)) = overlap
               /\ Suffix(chunks[k].content, overlap)
                    = Prefix(chunks[k + 1].content, overlap)

C5_Witness ==
    /\ fn = "chunk_fixed_size"
    /\ overlap > 0
    /\ overlap < chunk_size
    /\ ~HasBlankRun(text, chunk_size)
    /\ pc = "done"
    /\ \E k \in 1..(Len(chunks) - 1) :
          /\ Len(chunks[k].content) = chunk_size
          /\ Len(chunks[k + 1].content) = chunk_size
          /\ chunks[k].content # chunks[k + 1].content

----------------------------------------------------------------------------
(* The scenario of a 1000-character text with chunk_size 200, overlap 50 *)

\* the defaults of ChunkingRequest
DefaultChunkSize == 200
DefaultOverlap == 50

\* the length of the scenario's text
ScenarioLen == 5 * DefaultChunkSize

\* a text of ScenarioLen letters with spaces at the offsets lo .. lo + n - 1
BlockText(lo, n) ==
    [k \in 1..ScenarioLen |-> IF lo < k /\ k <= lo + n THEN " " ELSE "a"]

\* where the block of spaces starts, and how long it is
BlockStarts == {DefaultOverlap * k : k \in 0..16}
BlockLens == {0, 1, DefaultChunkSize}

ScenarioTexts == {BlockText(lo, n) : lo \in BlockStarts, n \in BlockLens}

\* a caller chunks a scenario text with chunk_size 200 and overlap 50
CallScenario ==
    /\ pc = "idle"
    /\ fn' \in {"chunk_fixed_size", "chunk_by_fixed_size"}
    /\ text' \in ScenarioTexts
    /\ chunk_size' = DefaultChunkSize
    /\ overlap' = DefaultOverlap
    /\ UNCHANGED child_size
    /\ UNCHANGED sessionVars
    /\ UNCHANGED callVars
    /\ pos' = 0
    /\ chunk_id' = 0
    /\ chunks' = <<>>
    /\ pc' = "loop"

\* a scenario text is never empty, so only the loop iterations can run
NextScenario == CallScenario \/ FixedIter \/ FlaskFixedIter

SpecScenario == InitIdle /\ [][NextScenario]_vars

\* ceil(a / b) for positive integers
CeilDiv(a, b) == (a + b - 1) \div b

\* C6: fixed-size chunking with chunkSize = 200 and overlap = 50 of any
\* 1000-character text returns exactly ceil(1000 / 150) = 7 chunks, and the
\* end offset of the last chunk is the text length, in both backends.
C6_ScenarioSevenChunks ==
    (pc = "done" /\ Len(text) = ScenarioLen
        /\ chunk_size = DefaultChunkSize /\ overlap = DefaultOverlap) =>
        /\ Len(chunks) = CeilDiv(ScenarioLen, DefaultChunkSize - DefaultOverlap)
        /\ chunks[Len(chunks)].end = Len(text)

\* the FastAPI backend alone, on a text without whitespace
C6_FastApiLetters ==
    (pc = "done" /\ fn = "chunk_fixed_size" /\ text = BlockText(0, 0)) =>
        /\ Len(chunks) = 7
        /\ chunks[Len(chunks)].end = Len(text)

\* the Flask backend on the same text
C6_FlaskLetters ==
    (pc = "done" /\ fn = "chunk_by_fixed_size" /\ text = BlockText(0, 0)) =>
        /\ Len(chunks) = 7
        /\ chunks[Len(chunks)].end = Len(text)

----------------------------------------------------------------------------
(* Sentence-based chunking: chunk_sentence_based (FastAPI) and             *)
(* chunk_by_sentences (Flask), each applied in one step                    *)

\* the Chunk built at main.py:168-175 and main.py:192-199
SentenceChunk(n, cur, start) ==
    [id           |-> <<"chunk", n>>,
     content      |-> Strip(cur),
     start        |-> start,
     end          |-> start + Len(cur),
     word_count   |-> SplitCount(cur),
     char_count   |-> Len(cur),
     parent_id    |-> "None",
     is_child     |-> "None",
     children_ids |-> "None"]

\* the body of `for i, sentence in enumerate(sentences)`, main.py:165-188;
\* st holds chunks, current_chunk (cur) and current_start (start)
SentenceBody(t, sentence, st, max_size, ov) ==
    IF Len(st.cur) + Len(sentence) > max_size /\ st.cur # <<>>
    THEN LET emitted == Append(st.chunks,
                               SentenceChunk(Len(st.chunks) + 1, st.cur, st.start))
         IN  IF ov > 0
             THEN LET overlap_text == IF Len(st.cur) > ov
                                      THEN PySlice(st.cur, Len(st.cur) - ov, Len(st.cur))
                                      ELSE st.cur
                      cur2 == overlap_text \o <<" ">> \o sentence
                  IN  [chunks |-> emitted,
                       cur    |-> cur2,
                       start  |-> Max(0, st.start + Len(cur2) - ov - Len(sentence))]
             ELSE [chunks |-> emitted,
                   cur    |-> sentence,
                   start  |-> Find(t, sentence, st.start)]
    ELSE [chunks |-> st.chunks,
          cur    |-> IF st.cur = <<>> THEN sentence
                     ELSE st.cur \o <<" ">> \o sentence,
          start  |-> IF st.cur = <<>>
                     THEN Find(t, sentence, IF st.chunks # <<>> THEN st.start ELSE 0)
                     ELSE st.start]

RECURSIVE SentenceLoop(_, _, _, _, _)
SentenceLoop(t, sents, st, max_size, ov) ==
    IF sents = <<>> THEN st
    ELSE SentenceLoop(t, Tail(sents),
                      SentenceBody(t, Head(sents), st, max_size, ov), max_size, ov)

\* chunk_sentence_based(text, max_size, overlap)
ChunkSentenceBased(t, max_size, ov) ==
    LET st == SentenceLoop(t, SentTokenize(t),
                           [chunks |-> <<>>, cur |-> <<>>, start |-> 0],
                           max_size, ov)
    IN  IF Strip(st.cur) # <<>>
        THEN Append(st.chunks, SentenceChunk(Len(st.chunks) + 1, st.cur, st.start))
        ELSE st.chunks

\* the chunk dict built at app.py:291-298
FlaskSentenceChunk(sentence, i) ==
    [id             |-> <<"uuid", i>>,
     content        |-> Strip(sentence),
     sentence_index |-> i,
     word_count     |-> WordTokenizeCount(sentence),
     char_count     |-> Len(Strip(sentence))]

\* chunk_by_sentences(text): one chunk per non-blank sentence
RECURSIVE FlaskSentenceLoop(_, _)
FlaskSentenceLoop(sents, i) ==
    IF i >= Len(sents) THEN <<>>
    ELSE (IF Strip(sents[i + 1]) # <<>>
          THEN <<FlaskSentenceChunk(sents[i + 1], i)>> ELSE <<>>)
         \o FlaskSentenceLoop(sents, i + 1)

ChunkBySentences(t) == FlaskSentenceLoop(SentTokenize(t), 0)

\* the words the sentence texts are built from
Words == {<<"a">>, <<"a", "b">>, <<"a", "b", ".">>, <<"b", "a", ".">>}

\* most words in an enumerated sentence text
MaxWords == 4

\* the texts of exactly n words, joined by single spaces
RECURSIVE WordTextsOfLen(_)
WordTextsOfLen(n) ==
    IF n = 1 THEN Words
    ELSE {t \o <<" ">> \o w : t \in WordTextsOfLen(n - 1), w \in Words}

WordTexts == {<<>>} \cup UNION {WordTextsOfLen(n) : n \in 1..MaxWords}

\* "A cat sat. A dog ran. The sky is blue."
ScenarioSentences ==
    <<"A", " ", "c", "a", "t", " ", "s", "a", "t", ".", " ", "A", " ", "d",
      "o", "g", " ", "r", "a", "n", ".", " ", "T", "h", "e", " ", "s", "k",
      "y", " ", "i", "s", " ", "b", "l", "u", "e", ".">>

\* the max_size and overlap values tried on the sentence texts
SentenceSizes == {4, 8, DefaultChunkSize}
SentenceOverlaps == {0, 2, DefaultOverlap}

\* chunk_text with strategy "sentence": chunk_sentence_based runs to its end
CallSentenceBased ==
    /\ pc = "idle"
    /\ fn' = "chunk_sentence_based"
    /\ text' \in WordTexts \cup {ScenarioSentences}
    /\ chunk_size' \in SentenceSizes
    /\ overlap' \in SentenceOverlaps
    /\ chunks' = ChunkSentenceBased(text', chunk_size', overlap')
    /\ pc' = "done"
    /\ UNCHANGED <<child_size, pos, chunk_id>>
    /\ UNCHANGED sessionVars
    /\ UNCHANGED callVars

\* process_document with strategy "sentence_based": chunk_by_sentences runs
CallBySentences ==
    /\ pc = "idle"
    /\ fn' = "chunk_by_sentences"
    /\ text' \in WordTexts \cup {ScenarioSentences}
    /\ chunks' = ChunkBySentences(text')
    /\ pc' = "done"
    /\ UNCHANGED <<chunk_size, overlap, child_size, pos, chunk_id>>
    /\ UNCHANGED sessionVars
    /\ UNCHANGED callVars

NextSentence == CallSentenceBased \/ CallBySentences

SpecSentence == InitIdle /\ [][NextSentence]_vars

\* the word counts of a chunk list, in order
WordCounts(cs) == [k \in 1..Len(cs) |-> cs[k].word_count]

\* C7: for every chunking strategy of both backends, every produced chunk has
\* content that is non-empty after trimming, and its word count is the
\* number of whitespace-delimited tokens of its content.
C7_ChunkContentAndWordCount ==
    \A k \in 1..Len(chunks) :
        /\ Strip(chunks[k].content) # <<>>
        /\ chunks[k].word_count = SplitCount(chunks[k].content)

\* C7 restricted to the FastAPI backend's sentence chunker
C7_FastApiOnly ==
    (fn = "chunk_sentence_based") => C7_ChunkContentAndWordCount

\* C8: sentence-based chunking of "A cat sat. A dog ran. The sky is blue."
\* with default parameters yields exactly 3 chunks, one per sentence in
\* source order, with word counts 3, 3 and 4.
C8_ThreeSentenceChunks ==
    (pc = "done" /\ text = ScenarioSentences
        /\ (fn = "chunk_by_sentences"
            \/ (fn = "chunk_sentence_based" /\ chunk_size = DefaultChunkSize
                /\ overlap = DefaultOverlap))) =>
        /\ Len(chunks) = 3
        /\ [k \in 1..Len(chunks) |-> chunks[k].content] = SentTokenize(text)
        /\ WordCounts(chunks) = <<3, 3, 4>>

\* C8 for the Flask backend, without the word counts
C8_FlaskOnePerSentence ==
    (pc = "done" /\ text = ScenarioSentences /\ fn = "chunk_by_sentences") =>
        /\ Len(chunks) = 3
        /\ [k \in 1..Len(chunks) |-> chunks[k].content] = SentTokenize(text)
        /\ WordCounts(chunks) = <<4, 4, 5>>

----------------------------------------------------------------------------
(* RecursiveCharacterTextSplitter of LangChain, as chunk_hierarchical uses *)
(* it: keep_separator and strip_whitespace at their defaults (True)        *)

\* "".join(parts)
RECURSIVE Join(_)
Join(parts) == IF parts = <<>> THEN <<>> ELSE Head(parts) \o Join(Tail(parts))

\* re.split with a capturing separator: every piece after the first starts
\* with the separator that precedes it
RECURSIVE SplitKeep(_, _, _)
SplitKeep(r, sep, first) ==
    LET k == Find(r, sep, IF first THEN 0 ELSE Len(sep))
    IN  IF k = -1 THEN <<r>>
        ELSE <<PySlice(r, 0, k)>> \o SplitKeep(PySlice(r, k, Len(r)), sep, FALSE)

\* _split_text_with_regex(text, separator, keep_separator=True)
SplitWithSeparator(t, sep) ==
    LET raw == IF sep = <<>> THEN [k \in 1..Len(t) |-> <<t[k]>>]
               ELSE SplitKeep(t, sep, TRUE)
    IN  SelectSeq(raw, LAMBDA x : x # <<>>)

\* the first separator that is "" or occurs in the text, and those after it;
\* the last separator when none does
RECURSIVE PickSeparator(_, _, _)
PickSeparator(t, seps, last) ==
    IF seps = <<>> THEN [sep |-> last, rest |-> <<>>]
    ELSE IF Head(seps) = <<>> THEN [sep |-> <<>>, rest |-> <<>>]
    ELSE IF Find(t, Head(seps), 0) # -1 THEN [sep |-> Head(seps), rest |-> Tail(seps)]
    ELSE PickSeparator(t, Tail(seps), last)

\* the while loop of _merge_splits: pieces leave the window from its front
RECURSIVE DropHead(_, _, _, _, _)
DropHead(cur, total, len, size, ov) ==
    IF total > ov \/ (total + len > size /\ total > 0)
    THEN DropHead(Tail(cur), total - Len(Head(cur)), len, size, ov)
    ELSE [cur |-> cur, total |-> total]

\* _join_docs followed by the append: a document that is blank is dropped
AddDoc(docs, cur) ==
    IF Strip(Join(cur)) = <<>> THEN docs ELSE Append(docs, Strip(Join(cur)))

\* _merge_splits(splits, "") with the window cur of total characters
RECURSIVE MergeLoop(_, _, _, _, _, _)
MergeLoop(splits, docs, cur, total, size, ov) ==
    IF splits = <<>> THEN AddDoc(docs, cur)
    ELSE LET d == Head(splits)
         IN  IF total + Len(d) > size /\ cur # <<>>
             THEN LET dr == DropHead(cur, total, Len(d), size, ov)
                  IN  MergeLoop(Tail(splits), AddDoc(docs, cur),
                                Append(dr.cur, d), dr.total + Len(d), size, ov)
             ELSE MergeLoop(Tail(splits), docs, Append(cur, d),
                            total + Len(d), size, ov)

MergeSplits(splits, size, ov) == MergeLoop(splits, <<>>, <<>>, 0, size, ov)

\* _split_text(text, separators) and its loop over the pieces
RECURSIVE SplitText(_, _, _, _)
RECURSIVE SplitPieces(_, _, _, _, _, _)
SplitPieces(splits, good, final, rest, size, ov) ==
    LET flushed == IF good # <<>> THEN final \o MergeSplits(good, size, ov)
                   ELSE final
    IN  IF splits = <<>> THEN flushed
        ELSE IF Len(Head(splits)) < size
        THEN SplitPieces(Tail(splits), Append(good, Head(splits)), final,
                         rest, size, ov)
        ELSE SplitPieces(Tail(splits), <<>>,
                         flushed \o (IF rest = <<>> THEN <<Head(splits)>>
                                     ELSE SplitText(Head(splits), rest, size, ov)),
                         rest, size, ov)

SplitText(t, seps, size, ov) ==
    LET pk == PickSeparator(t, seps, seps[Len(seps)])
    IN  SplitPieces(SplitWithSeparator(t, pk.sep), <<>>, <<>>, pk.rest, size, ov)

\* the constructor of the splitter raises ValueError for these arguments
SplitterRaises(size, ov) == ov > size

----------------------------------------------------------------------------
(* chunk_hierarchical of the FastAPI backend, applied in one step *)

\* separators of the parent and of the child splitter
ParentSeparators == << <<"\n", "\n">>, <<"\n">>, <<".", " ">>, <<" ">>, <<>> >>
ChildSeparators == << <<".", " ">>, <<" ">>, <<>> >>

\* parent_id = f"parent-{parent_idx + 1}"
ParentId(p) == <<"parent", p>>

\* a child's id without its parent's
ChildIdFlat(p, c) == <<"child", c>>

\* child_id = f"{parent_id}-child-{child_idx + 1}"
ChildId(p, c) == <<"parent", p, "child", c>>

\* the child Chunk built at main.py:250-264
ChildChunk(p, c, parent_content, parent_start, content) ==
    LET child_start == parent_start + Find(parent_content, content, 0)
    IN  [id           |-> ChildId(p, c),
         content      |-> content,
         start        |-> child_start,
         end          |-> child_start + Len(content),
         word_count   |-> SplitCount(content),
         char_count   |-> Len(content),
         parent_id    |-> ParentId(p),
         is_child     |-> "True",
         children_ids |-> "None"]

\* the parent Chunk built at main.py:221-234, with the children_ids it is
\* given at main.py:268
ParentChunk(t, p, content, n_children) ==
    [id           |-> ParentId(p),
     content      |-> content,
     start        |-> Find(t, content, 0),
     end          |-> Find(t, content, 0) + Len(content),
     word_count   |-> SplitCount(content),
     char_count   |-> Len(content),
     parent_id    |-> "None",
     is_child     |-> "False",
     children_ids |-> [c \in 1..n_children |-> ChildId(p, c)]]

\* one pass of `for parent_idx, parent_doc in enumerate(parent_docs)`
ParentAndChildren(t, p, content, child_sz, child_ov) ==
    LET child_docs == SplitText(content, ChildSeparators, child_sz, child_ov)
    IN  <<ParentChunk(t, p, content, Len(child_docs))>>
        \o [c \in 1..Len(child_docs) |->
              ChildChunk(p, c, content, Find(t, content, 0), child_docs[c])]

RECURSIVE HierLoop(_, _, _, _, _)
HierLoop(t, parent_docs, p, child_sz, child_ov) ==
    IF p > Len(parent_docs) THEN <<>>
    ELSE ParentAndChildren(t, p, parent_docs[p], child_sz, child_ov)
         \o HierLoop(t, parent_docs, p + 1, child_sz, child_ov)

\* chunk_hierarchical(text, parent_size, child_size, overlap): an exception
\* of a splitter's constructor falls back to chunk_fixed_size
ChunkHierarchical(t, parent_size, child_sz, ov) ==
    IF SplitterRaises(parent_size, ov)
    THEN ChunkFixedSize(t, parent_size, ov)
    ELSE LET parent_docs == SplitText(t, ParentSeparators, parent_size, ov)
         IN  IF parent_docs # <<>> /\ SplitterRaises(child_sz, ov \div 2)
             THEN ChunkFixedSize(t, parent_size, ov)
             ELSE HierLoop(t, parent_docs, 1, child_sz, ov \div 2)

\* chunk_text with strategy "hierarchical"
CallHierarchical ==
    /\ pc = "idle"
    /\ fn' = "chunk_hierarchical"
    /\ text' \in Texts(MaxLen)
    /\ chunk_size' \in 1..MaxSize
    /\ child_size' \in 1..MaxSize
    /\ overlap' \in 0..MaxOverlap
    /\ chunks' = ChunkHierarchical(text', chunk_size', child_size', overlap')
    /\ pc' = "done"
    /\ UNCHANGED <<pos, chunk_id>>
    /\ UNCHANGED sessionVars
    /\ UNCHANGED callVars

NextHier == CallHierarchical

SpecHier == InitIdle /\ [][NextHier]_vars

\* the ids of a chunk list
ChunkIds(cs) == {cs[k].id : k \in 1..Len(cs)}

\* C9: in every output of hierarchical chunking, every child's parent_id is
\* the id of a parent chunk of the same output, every parent's children_ids
\* is exactly the set of ids of the chunks whose parent_id is that parent's
\* id, and all chunk ids are distinct.
C9_HierarchyLinks ==
    (fn = "chunk_hierarchical") =>
        /\ \A k \in 1..Len(chunks) :
              chunks[k].is_child = "True" =>
                \E j \in 1..Len(chunks) :
                    /\ chunks[j].is_child = "False"
                    /\ chunks[j].id = chunks[k].parent_id
        /\ \A j \in 1..Len(chunks) :
              chunks[j].is_child = "False" =>
                {chunks[j].children_ids[c] : c \in DOMAIN chunks[j].children_ids}
                  = {chunks[k].id : k \in {i \in 1..Len(chunks) :
                                             /\ chunks[i].is_child = "True"
                                             /\ chunks[i].parent_id = chunks[j].id}}
        /\ Cardinality(ChunkIds(chunks)) = Len(chunks)

C9_Witness ==
    /\ fn = "chunk_hierarchical"
    /\ pc = "done"
    /\ Cardinality({k \in 1..Len(chunks) : chunks[k].is_child = "False"}) >= 2
    /\ \E k \in 1..Len(chunks) :
          chunks[k].is_child = "False" /\ Len(chunks[k].children_ids) >= 2

\* C10: for every chunking call whose chunks carry offsets and for every
\* parameter choice, the start offsets of the produced chunks are
\* non-decreasing along the returned chunk sequence.
C10_StartsNonDecreasing ==
    (pc = "done") =>
        \A k \in 1..(Len(chunks) - 1) : chunks[k].start <= chunks[k + 1].start

----------------------------------------------------------------------------
(* The Flask backend's document session: the text preparation, the          *)
(* remaining chunkers and the embedding service (src/python_backend/app.py) *)

\* most requests the Flask server receives in a run
MaxCalls == 3
\* the non-zero vectors the embedding service can answer with, per dimension
NumDirections == 1

\* the characters \w matches among those the session texts use, and the
\* punctuation that clean_text keeps
WordChars == {"a", "b"}
KeptPunctuation == {".", "!", "?", ",", ";", ":"}

\* re.sub(r'\s+', ' ', s): every run of whitespace becomes one space
CollapseWhitespace(s) ==
    LET idx  == [k \in 1..Len(s) |-> k]
        kept == SelectSeq(idx, LAMBDA k : \/ ~IsSpace(s[k])
                                          \/ k = 1
                                          \/ ~IsSpace(s[k - 1]))
    IN  [j \in 1..Len(kept) |-> IF IsSpace(s[kept[j]]) THEN " " ELSE s[kept[j]]]

\* re.sub(r'[^\w\s\.\!\?\,\;\:]', '', s)
RemoveSpecial(s) ==
    SelectSeq(s, LAMBDA ch : \/ ch \in WordChars
                             \/ IsSpace(ch)
                             \/ ch \in KeptPunctuation)

\* DocumentProcessor.clean_text
CleanText(t) == RemoveSpecial(CollapseWhitespace(Strip(t)))

\* s.split(sep) for a non-empty separator
RECURSIVE SplitOn(_, _)
SplitOn(s, sep) ==
    LET k == Find(s, sep, 0)
    IN  IF k = -1 THEN <<s>>
        ELSE <<PySlice(s, 0, k)>> \o SplitOn(PySlice(s, k + Len(sep), Len(s)), sep)

\* chunk_by_fixed_size(text, chunk_size, overlap) run to its end, from start on
RECURSIVE FlaskFixedLoop(_, _, _, _, _)
FlaskFixedLoop(t, cs, ov, start, acc) ==
    IF start >= Len(t) THEN acc
    ELSE LET end        == FlaskFixedEnd(t, start, cs)
             chunk_text == PySlice(t, start, end)
             acc2       == IF Strip(chunk_text) # <<>>
                           THEN Append(acc, FlaskFixedChunk(chunk_text, start, end))
                           ELSE acc
             nxt        == FlaskNextStart(end, ov)
         IN  IF nxt >= Len(t) THEN acc2
             ELSE FlaskFixedLoop(t, cs, ov, nxt, acc2)

ChunkByFixedSize(t, cs, ov) == FlaskFixedLoop(t, cs, ov, 0, <<>>)

\* the chunk of paragraph i
FlaskParagraphChunk(paragraph, i) ==
    [id              |-> <<"uuid", i>>,
     content         |-> paragraph,
     paragraph_index |-> i,
     word_count      |-> WordTokenizeCount(paragraph),
     char_count      |-> Len(paragraph)]

\* chunk_by_paragraphs(text): one chunk per non-blank piece between "\n\n"
ChunkByParagraphs(t) ==
    LET pieces     == SplitOn(t, <<"\n", "\n">>)
        kept       == SelectSeq(pieces, LAMBDA p : Strip(p) # <<>>)
        paragraphs == [k \in 1..Len(kept) |-> Strip(kept[k])]
    IN  [k \in 1..Len(paragraphs) |-> FlaskParagraphChunk(paragraphs[k], k - 1)]

\* the defaults of process_document and of search_chunks
FlaskDefaultChunkSize == 500
FlaskDefaultOverlap == 50

\* the strategy names process_document dispatches on, apart from
\* "semantic_based"
Strategies == {"sentence_based", "fixed_size", "paragraph_based"}

\* the chunking dispatch of process_document
ChunkWith(strategy, cleaned_text) ==
    CASE strategy = "sentence_based"  -> ChunkBySentences(cleaned_text)
      [] strategy = "fixed_size"      ->
            ChunkByFixedSize(cleaned_text, FlaskDefaultChunkSize, FlaskDefaultOverlap)
      [] strategy = "paragraph_based" -> ChunkByParagraphs(cleaned_text)

\* BEDROCK_MODELS['embedding']: the dimensions of the listed models
TitanV1Dimensions == 1536
TitanV2Dimensions == 1024
CohereDimensions == 1024

KnownModels ==
    {"amazon.titan-embed-text-v1", "amazon.titan-embed-text-v2:0",
     "cohere.embed-english-v3"}

ModelDimensions(model_id) ==
    CASE model_id = "amazon.titan-embed-text-v1"   -> TitanV1Dimensions
      [] model_id = "amazon.titan-embed-text-v2:0" -> TitanV2Dimensions
      [] model_id = "cohere.embed-english-v3"      -> CohereDimensions

\* a vector of the given dimension: the zero vector when direction = 0,
\* otherwise the unit vector along the axis `direction`
Vec(dimensions, direction) == [dimensions |-> dimensions, direction |-> direction]

\* the outcomes of BedrockService.get_bedrock_embedding(text, model_id):
\* None stands for a raised exception (Bedrock not available, an unsupported
\* model id, a failed service call)
BedrockEmbeddingOutcomes(model_id) ==
    IF bedrock_available /\ model_id \in KnownModels
    THEN {None} \cup {Some(Vec(ModelDimensions(model_id), d)) : d \in 1..NumDirections}
    ELSE {None}

\* the outcomes of get_bedrock_embeddings_batch for n texts: a failed item
\* becomes a zero vector of the model's dimensions, and the lookup of the
\* dimensions raises for a model that is not listed (None)
BatchOutcomes(n, model_id) ==
    IF model_id \in KnownModels
    THEN {Some([k \in 1..n |-> IF item[k] = None
                               THEN Vec(ModelDimensions(model_id), 0)
                               ELSE item[k][1]]) :
            item \in [1..n -> BedrockEmbeddingOutcomes(model_id)]}
    ELSE {None}

\* the placeholder process_document uses when generate_embeddings returns None
FailedEmbeddings ==
    [embeddings |-> <<>>, method |-> "failed", model_id |-> "none", dimensions |-> 0]

\* the outcomes of generate_embeddings(chunks, method, model_id): it raises
\* (embeddings_dense is read although it was never assigned), returns None,
\* or returns the embeddings data
GenerateEmbeddings(cs, method, model_id) ==
    IF cs = <<>> THEN {[raises |-> FALSE, value |-> None]}
    ELSE IF method = "bedrock" /\ bedrock_available
    THEN {IF b = None
          THEN [raises |-> FALSE, value |-> None]
          ELSE [raises |-> FALSE,
                value  |-> Some([embeddings |-> b[1],
                                 method     |-> "bedrock",
                                 model_id   |-> model_id,
                                 dimensions |-> ModelDimensions(model_id)])] :
            b \in BatchOutcomes(Len(cs), model_id)}
    ELSE IF method = "tfidf" THEN {[raises |-> FALSE, value |-> None]}
    ELSE {[raises |-> TRUE, value |-> None]}

\* calculate_similarities raises when cosine_similarity is handed the empty
\* embedding list of the placeholder
CalculateSimilaritiesRaises(cs, embeddings_data) ==
    Len(cs) >= 2 /\ embeddings_data.embeddings = <<>>

\* cosine_similarity of two vectors of one dimension
Cosine(q, v) == IF q.direction # 0 /\ q.direction = v.direction THEN 1 ELSE 0

\* s reversed
Reverse(s) == [k \in 1..Len(s) |-> s[Len(s) + 1 - k]]

\* np.argsort(sims): the orders of the 0-based indexes of sims in which the
\* values do not decrease; the order among equal values is not specified
ArgSorts(sims) ==
    {p \in [1..Len(sims) -> 0..(Len(sims) - 1)] :
        /\ \A i, j \in 1..Len(sims) : i # j => p[i] # p[j]
        /\ \A i \in 1..(Len(sims) - 1) : sims[p[i] + 1] <= sims[p[i + 1] + 1]}

----------------------------------------------------------------------------
(* process_document and search_chunks of the Flask backend.  The server is  *)
(* threaded (app.run, app.py:1374), so the requests of different callers    *)
(* interleave between any two accesses of the global processor: every       *)
(* action below holds one such access, together with the local computation  *)
(* around it.                                                               *)

\* the request bodies of the model
SessionTexts ==
    {<<" ">>, <<"#">>, <<"a", "b", ".", " ", "b", "a", ".">>}
RequestStrategies == Strategies \cup {"unknown"}
EmbeddingMethods == {"tfidf", "bedrock"}
ModelIds == {"amazon.titan-embed-text-v1", "cohere.embed-english-v3", "unlisted-model"}
Queries == {<<>>, <<"a", "b">>}
TopKs == {1}

\* the request of caller c ends with the given response
Respond(c, kind, status) ==
    req' = [req EXCEPT ![c] = [NoRequest EXCEPT !.kind = kind, !.status = status]]

\* the parts of a sequence of texts joined with a separator between them
RECURSIVE JoinWith(_, _)
JoinWith(parts, sep) ==
    IF parts = <<>> THEN <<>>
    ELSE IF Len(parts) = 1 THEN Head(parts)
    ELSE Head(parts) \o sep \o JoinWith(Tail(parts), sep)

\* SemanticChunker's sentence split, re.split(r'(?<=[.?!])\s+', t), from the
\* 1-based offset `from` on: a break is a run of whitespace after . ? or !
RECURSIVE SemanticSentencesFrom(_, _)
SemanticSentencesFrom(t, from) ==
    LET breaks == {k \in (from + 1)..Len(t) :
                      IsSpace(t[k]) /\ t[k - 1] \in {".", "?", "!"}}
    IN  IF breaks = {} THEN <<SubSeq(t, from, Len(t))>>
        ELSE LET k       == SetMin(breaks)
                 run_end == SetMax({j \in k..Len(t) :
                                       \A i \in k..j : IsSpace(t[i])})
             IN  <<SubSeq(t, from, k - 1)>> \o SemanticSentencesFrom(t, run_end + 1)

\* the elements of a finite set of integers in increasing order
SortedSeq(S) ==
    CHOOSE q \in [1..Cardinality(S) -> S] :
        \A i, j \in 1..Cardinality(S) : i < j => q[i] < q[j]

\* the sentences joined into groups, a group ending after each sentence
\* whose number is in cuts and after the last sentence
GroupSentences(sents, cuts) ==
    LET ends == SortedSeq(cuts \cup {Len(sents)})
    IN  [g \in 1..Len(ends) |->
            JoinWith(SubSeq(sents, IF g = 1 THEN 1 ELSE ends[g - 1] + 1, ends[g]),
                     <<" ">>)]

\* the outcomes of BedrockEmbeddings.embed_documents for n texts: the batch,
\* and when the batch raises, a second lookup of the dimensions that raises
\* for the same model (None)
EmbedDocumentsOutcomes(n, model_id) == BatchOutcomes(n, model_id)

\* the outcomes of SemanticChunker(...).split_text(t), the library call of
\* app.py:378, with the number of get_bedrock_embedding calls it made: the
\* call can raise; a text of one sentence is returned as it is, without an
\* embedding; otherwise the sentences are embedded and joined into groups
\* at the breakpoints the distances give, which the model leaves open
SemanticSplitOutcomes(t, model_id) ==
    LET sents == SemanticSentencesFrom(t, 1)
        n     == Len(sents)
    IN  {[chunk_texts |-> None, calls |-> 0]}
        \cup (IF n <= 1
              THEN {[chunk_texts |-> Some(sents), calls |-> 0]}
              ELSE {IF e = None
                    THEN [chunk_texts |-> None, calls |-> n]
                    ELSE [chunk_texts |-> Some(GroupSentences(sents, cuts)),
                          calls       |-> n] :
                      e \in EmbedDocumentsOutcomes(n, model_id),
                      cuts \in SUBSET (1..(n - 1))})

\* the chunk dict built at app.py:392-401
SemanticChunk(chunk_text, i, method, model_id) ==
    [id               |-> <<"uuid", i>>,
     content          |-> Strip(chunk_text),
     chunk_index      |-> i,
     word_count       |-> WordTokenizeCount(chunk_text),
     char_count       |-> Len(Strip(chunk_text)),
     embedding_method |-> method,
     embedding_model  |-> model_id]

\* the chunks of the non-blank chunk texts (app.py:389-401)
SemanticChunks(chunk_texts, method, model_id) ==
    LET idx  == [k \in 1..Len(chunk_texts) |-> k]
        kept == SelectSeq(idx, LAMBDA k : Strip(chunk_texts[k]) # <<>>)
    IN  [j \in 1..Len(kept) |->
            SemanticChunk(chunk_texts[kept[j]], kept[j] - 1, method, model_id)]

\* without Bedrock the text is chunked by sentences instead
ChunkBySemanticDegrading(t, method, model_id) ==
    IF method = "bedrock" /\ bedrock_available
    THEN {[chunks |-> IF o.chunk_texts = None THEN <<>>
                      ELSE SemanticChunks(o.chunk_texts[1], method, model_id),
           calls  |-> o.calls,
           split  |-> o.chunk_texts] : o \in SemanticSplitOutcomes(t, model_id)}
    ELSE {[chunks |-> ChunkBySentences(t), calls |-> 0, split |-> None]}

\* the outcomes of chunk_by_semantic(text, ..., embedding_method,
\* embedding_model): the chunk list it returns, the embedding calls made,
\* and what split_text returned (None when it raised or was not called)
ChunkBySemantic(t, method, model_id) ==
    IF method = "bedrock" /\ bedrock_available
    THEN {[chunks |-> IF o.chunk_texts = None THEN <<>>
                      ELSE SemanticChunks(o.chunk_texts[1], method, model_id),
           calls  |-> o.calls,
           split  |-> o.chunk_texts] : o \in SemanticSplitOutcomes(t, model_id)}
    ELSE {[chunks |-> <<>>, calls |-> 0, split |-> None]}

\* every strategy name process_document accepts
ProcessStrategies == Strategies \cup {"semantic_based"}

\* the outcomes of the chunking dispatch of process_document
ChunkOutcomes(strategy, cleaned_text, method, model_id) ==
    IF strategy = "semantic_based"
    THEN ChunkBySemantic(cleaned_text, method, model_id)
    ELSE {[chunks |-> ChunkWith(strategy, cleaned_text), calls |-> 0]}

\* only the empty text counts as missing
TextMissingEmptyOnly(t) == t = <<>>

\* `if not text.strip()` (app.py:532) and `if not query.strip()` (app.py:781)
TextMissing(t) == Strip(t) = <<>>
QueryMissing(query) == Strip(query) = <<>>

\* the calls of get_bedrock_embedding that generate_embeddings makes: one
\* per chunk when the batch is run
EmbeddingCalls(cs, method) ==
    IF cs # <<>> /\ method = "bedrock" /\ bedrock_available THEN Len(cs) ELSE 0

\* the request of caller c ends with the given response, after the given
\* number of embedding calls
RespondAfter(c, kind, status, calls) ==
    req' = [req EXCEPT ![c] = [NoRequest EXCEPT !.kind = kind, !.status = status,
                                                !.backend_calls = calls]]

\* process_document up to the similarities (app.py:506-578) on the given
\* request body: validation, cleaning, chunking, embeddings; nothing of the
\* processor is written yet
ProcessDocumentOn(c, t, strategy, method, model_id) ==
    /\ req[c].pc = "idle"
    /\ started < MaxCalls
    /\ started' = started + 1
    /\ IF TextMissing(t) \/ strategy \notin ProcessStrategies
       THEN Respond(c, "process", 400)
       ELSE \E ch \in ChunkOutcomes(strategy, CleanText(t), method, model_id) :
            \E g \in GenerateEmbeddings(ch.chunks, method, model_id) :
                   LET cs    == ch.chunks
                       calls == ch.calls + EmbeddingCalls(cs, method)
                       data  == IF g.value = None THEN FailedEmbeddings
                                ELSE g.value[1]
                   IN  IF g.raises \/ CalculateSimilaritiesRaises(cs, data)
                       THEN RespondAfter(c, "process", 500, calls)
                       ELSE req' = [req EXCEPT ![c] =
                               [NoRequest EXCEPT !.kind = "process",
                                                 !.pc = "store_chunks",
                                                 !.call = started + 1,
                                                 !.chunks = cs,
                                                 !.embeddings_data = Some(data),
                                                 !.backend_calls = calls]]
    /\ UNCHANGED <<bedrock_available, processor_chunks, processor_embeddings,
                   chunks_call, embeddings_call>>
    /\ UNCHANGED chunkVars

\* a caller posts a process-document request
ProcessDocument(c) ==
    /\ req[c].pc = "idle"
    /\ \E t \in SessionTexts, strategy \in RequestStrategies,
          method \in EmbeddingMethods, model_id \in ModelIds :
          ProcessDocumentOn(c, t, strategy, method, model_id)
    /\ UNCHANGED callVars

\* processor.chunks = chunks (app.py:581)
StoreChunks(c) ==
    /\ req[c].pc = "store_chunks"
    /\ processor_chunks' = req[c].chunks
    /\ chunks_call' = req[c].call
    /\ req' = [req EXCEPT ![c].pc = "store_embeddings"]
    /\ UNCHANGED <<bedrock_available, processor_embeddings, started, embeddings_call>>
    /\ UNCHANGED chunkVars
    /\ UNCHANGED callVars

\* processor.embeddings = embeddings_data, the statistics and the response
\* (app.py:582-605)
StoreEmbeddings(c) ==
    /\ req[c].pc = "store_embeddings"
    /\ processor_embeddings' = req[c].embeddings_data
    /\ embeddings_call' = req[c].call
    /\ RespondAfter(c, "process", 200, req[c].backend_calls)
    /\ UNCHANGED <<bedrock_available, processor_chunks, started, chunks_call>>
    /\ UNCHANGED chunkVars
    /\ UNCHANGED callVars

\* search_chunks up to its first look at processor.chunks (app.py:769-791)
\* on the given request body
SearchChunksOn(c, query, top_k) ==
    /\ req[c].pc = "idle"
    /\ started < MaxCalls
    /\ started' = started + 1
    /\ IF QueryMissing(query) \/ processor_chunks = <<>>
       THEN Respond(c, "search", 400)
       ELSE req' = [req EXCEPT ![c] =
               [NoRequest EXCEPT !.kind = "search", !.pc = "check_embeddings",
                                 !.call = started + 1, !.top_k = top_k]]
    /\ UNCHANGED <<bedrock_available, processor_chunks, processor_embeddings,
                   chunks_call, embeddings_call>>
    /\ UNCHANGED chunkVars

\* a caller posts a search-chunks request
SearchChunks(c) ==
    /\ req[c].pc = "idle"
    /\ \E query \in Queries, top_k \in TopKs : SearchChunksOn(c, query, top_k)
    /\ UNCHANGED callVars

\* `if not processor.embeddings` (app.py:793-799)
SearchCheckEmbeddings(c) ==
    /\ req[c].pc = "check_embeddings"
    /\ IF processor_embeddings = None
       THEN Respond(c, "search", 400)
       ELSE req' = [req EXCEPT ![c].pc = "read_method"]
    /\ UNCHANGED <<bedrock_available, processor_chunks, processor_embeddings,
                   started, chunks_call, embeddings_call>>
    /\ UNCHANGED chunkVars
    /\ UNCHANGED callVars

\* `if processor.embeddings['method'] == 'bedrock'` (app.py:804, 815-817)
SearchReadMethod(c) ==
    /\ req[c].pc = "read_method"
    /\ IF processor_embeddings[1].method = "bedrock"
       THEN req' = [req EXCEPT ![c].pc = "query_embedding"]
       ELSE Respond(c, "search", 400)
    /\ UNCHANGED <<bedrock_available, processor_chunks, processor_embeddings,
                   started, chunks_call, embeddings_call>>
    /\ UNCHANGED chunkVars
    /\ UNCHANGED callVars

\* the embedding of the query with processor.embeddings['model_id']
\* (app.py:806-814)
SearchQueryEmbedding(c) ==
    /\ req[c].pc = "query_embedding"
    /\ \E q \in BedrockEmbeddingOutcomes(processor_embeddings[1].model_id) :
          IF q = None
          THEN RespondAfter(c, "search", 500, 1)
          ELSE req' = [req EXCEPT ![c].pc = "similarities",
                                  ![c].query_embedding = q,
                                  ![c].backend_calls = 1]
    /\ UNCHANGED <<bedrock_available, processor_chunks, processor_embeddings,
                   started, chunks_call, embeddings_call>>
    /\ UNCHANGED chunkVars
    /\ UNCHANGED callVars

\* the similarities of the query with processor.embeddings['embeddings']
\* (app.py:820-831); cosine_similarity raises on an empty list and on
\* vectors whose dimension is not the query's
SearchSimilarities(c) ==
    /\ req[c].pc = "similarities"
    /\ LET chunk_embeddings == processor_embeddings[1].embeddings
           query_embedding  == req[c].query_embedding[1]
       IN  IF \/ chunk_embeddings = <<>>
              \/ chunk_embeddings[1].dimensions # query_embedding.dimensions
           THEN RespondAfter(c, "search", 500, req[c].backend_calls)
           ELSE req' = [req EXCEPT
                   ![c].pc = "top_indices",
                   ![c].similarities =
                       [k \in 1..Len(chunk_embeddings) |->
                           Cosine(query_embedding, chunk_embeddings[k])],
                   ![c].scores_from = embeddings_call]
    /\ UNCHANGED <<bedrock_available, processor_chunks, processor_embeddings,
                   started, chunks_call, embeddings_call>>
    /\ UNCHANGED chunkVars
    /\ UNCHANGED callVars

\* initial_k and top_indices (app.py:834-835)
SearchTopIndices(c) ==
    /\ req[c].pc = "top_indices"
    /\ LET initial_k == Min(req[c].top_k * 3, Len(processor_chunks))
       IN  \E p \in ArgSorts(req[c].similarities) :
              req' = [req EXCEPT ![c].pc = "collect",
                                 ![c].initial_k = initial_k,
                                 ![c].top_indices = PySlice(Reverse(p), 0, initial_k)]
    /\ UNCHANGED <<bedrock_available, processor_chunks, processor_embeddings,
                   started, chunks_call, embeddings_call>>
    /\ UNCHANGED chunkVars
    /\ UNCHANGED callVars

\* one iteration of `for idx in top_indices` (app.py:839-846); the index
\* may be past the end of the list processor.chunks is now
SearchCollect(c) ==
    /\ req[c].pc = "collect"
    /\ Len(req[c].results) < Len(req[c].top_indices)
    /\ LET idx == req[c].top_indices[Len(req[c].results) + 1]
       IN  IF idx >= Len(processor_chunks)
           THEN RespondAfter(c, "search", 500, req[c].backend_calls)
           ELSE req' = [req EXCEPT
                   ![c].results = Append(@,
                       [chunk            |-> processor_chunks[idx + 1],
                        similarity_score |-> req[c].similarities[idx + 1],
                        initial_rank     |-> Len(req[c].results) + 1,
                        chunk_index      |-> idx]),
                   ![c].results_from = @ \cup {chunks_call}]
    /\ UNCHANGED <<bedrock_available, processor_chunks, processor_embeddings,
                   started, chunks_call, embeddings_call>>
    /\ UNCHANGED chunkVars
    /\ UNCHANGED callVars

\* the end of the loop, reranking method "none", and the response
\* (app.py:848-879)
SearchRespond(c) ==
    /\ req[c].pc = "collect"
    /\ Len(req[c].results) = Len(req[c].top_indices)
    /\ req' = [req EXCEPT ![c] =
            [NoRequest EXCEPT !.kind = "search",
                              !.status = 200,
                              !.results = PySlice(req[c].results, 0, req[c].top_k),
                              !.scores_from = req[c].scores_from,
                              !.results_from = req[c].results_from,
                              !.backend_calls = req[c].backend_calls]]
    /\ UNCHANGED <<bedrock_available, processor_chunks, processor_embeddings,
                   started, chunks_call, embeddings_call>>
    /\ UNCHANGED chunkVars
    /\ UNCHANGED callVars

\* the server starts with or without a configured Bedrock client
InitFlask ==
    /\ ChunkerIdle
    /\ SessionStart
    /\ bedrock_available \in BOOLEAN
    /\ args = None
    /\ result = None

NextFlask ==
    \E c \in Callers :
        \/ ProcessDocument(c)
        \/ StoreChunks(c)
        \/ StoreEmbeddings(c)
        \/ SearchChunks(c)
        \/ SearchCheckEmbeddings(c)
        \/ SearchReadMethod(c)
        \/ SearchQueryEmbedding(c)
        \/ SearchSimilarities(c)
        \/ SearchTopIndices(c)
        \/ SearchCollect(c)
        \/ SearchRespond(c)

SpecFlask == InitFlask /\ [][NextFlask]_vars

----------------------------------------------------------------------------
(* Claims about the Flask session *)

\* no request is being handled
Quiescent == \A c \in Callers : req[c].pc = "idle"

\* the number of vectors of the stored embeddings; none before the first store
StoredVectors ==
    IF processor_embeddings = None THEN 0
    ELSE Len(processor_embeddings[1].embeddings)

\* C1: in the Flask backend, after any sequence of process-document calls
\* (any strategy, any embedding method, succeeding or failing), the number
\* of stored embedding vectors equals the number of stored chunks.
C1_VectorsMatchChunks ==
    Quiescent => StoredVectors = Len(processor_chunks)

\* C2: when process-document and search calls of different callers
\* interleave, every answered search takes its chunks and its embeddings
\* from one and the same process-document call.
C2_SearchFromOneCall ==
    \A c \in Callers :
        (req[c].kind = "search" /\ req[c].status = 200) =>
            req[c].results_from \subseteq {req[c].scores_from}

----------------------------------------------------------------------------
(* chunk_paragraph_based and the /chunk endpoint of the FastAPI backend *)

\* the 1-based offset at which the match of \n\s*\n that starts at offset k
\* ends, 0 when there is no match at k: \s* is greedy, so the match ends at
\* the last newline of the whitespace run that follows k
ParagraphBreakEnd(t, k) ==
    IF t[k] # "\n" THEN 0
    ELSE LET run_end == SetMax({j \in k..Len(t) :
                                    \A i \in (k + 1)..j : IsSpace(t[i])})
             newlines == {j \in (k + 1)..run_end : t[j] = "\n"}
         IN  IF newlines = {} THEN 0 ELSE SetMax(newlines)

\* re.split(r'\n\s*\n', t), from the 1-based offset `from` on
RECURSIVE ParagraphSplitFrom(_, _)
ParagraphSplitFrom(t, from) ==
    LET starts == {k \in from..Len(t) : ParagraphBreakEnd(t, k) > 0}
    IN  IF starts = {} THEN <<SubSeq(t, from, Len(t))>>
        ELSE LET k == SetMin(starts)
             IN  <<SubSeq(t, from, k - 1)>>
                 \o ParagraphSplitFrom(t, ParagraphBreakEnd(t, k) + 1)

\* the chunks of the sub_chunks of a large paragraph, renumbered and shifted
RECURSIVE SubChunks(_, _, _)
SubChunks(acc, sub_chunks, current_index) ==
    IF sub_chunks = <<>> THEN acc
    ELSE LET sub_chunk == Head(sub_chunks)
         IN  SubChunks(Append(acc, FixedChunk(Len(acc) + 1, sub_chunk.content,
                                              current_index + sub_chunk.start,
                                              current_index + sub_chunk.end)),
                       Tail(sub_chunks), current_index)

\* no paragraph is skipped
SkipParagraphNever(para) == FALSE

\* `if not para: continue`
SkipParagraph(para) == para = <<>>

\* the loop of chunk_paragraph_based over the paragraphs that are left
RECURSIVE ParagraphLoop(_, _, _, _)
ParagraphLoop(paragraphs, max_size, current_index, acc) ==
    IF paragraphs = <<>> THEN acc
    ELSE LET para == Strip(Head(paragraphs))
         IN  IF SkipParagraph(para)
             THEN ParagraphLoop(Tail(paragraphs), max_size, current_index, acc)
             ELSE ParagraphLoop(
                    Tail(paragraphs), max_size, current_index + Len(para) + 2,
                    IF Len(para) <= max_size
                    THEN Append(acc, FixedChunk(Len(acc) + 1, para, current_index,
                                                current_index + Len(para)))
                    ELSE SubChunks(acc, ChunkFixedSize(para, max_size, 0),
                                   current_index))

\* chunk_paragraph_based(text, max_size)
ChunkParagraphBased(t, max_size) ==
    ParagraphLoop(ParagraphSplitFrom(t, 1), max_size, 0, <<>>)

\* the defaults of ChunkingRequest for the hierarchical sizes
DefaultParentChunkSize == 800
DefaultChildChunkSize == 200

\* `x or default`: the default replaces None and 0 (both written 0 here)
PyOr(x, default) == IF x = 0 THEN default ELSE x

\* the strategy names chunk_text dispatches on
ChunkTextStrategies == {"fixed-size", "sentence", "hierarchical", "paragraph"}

\* the body of the try block of chunk_text: the chunks of a known strategy;
\* for any other name the block raises HTTPException(status_code=400)
ChunkTextChunks(r) ==
    CASE r.strategy = "fixed-size"   -> ChunkFixedSize(r.text, r.chunk_size, r.overlap)
      [] r.strategy = "sentence"     -> ChunkSentenceBased(r.text, r.chunk_size, r.overlap)
      [] r.strategy = "hierarchical" ->
            ChunkHierarchical(r.text,
                              PyOr(r.parent_chunk_size, DefaultParentChunkSize),
                              PyOr(r.child_chunk_size, DefaultChildChunkSize),
                              r.overlap)
      [] r.strategy = "paragraph"    -> ChunkParagraphBased(r.text, r.chunk_size)

\* the response of chunk_text(request): `except Exception` also catches the
\* HTTPException the try block raised itself (HTTPException is an
\* Exception) and answers with status 500
ChunkTextResponse(r) ==
    IF r.strategy \in ChunkTextStrategies
    THEN [status |-> 200, chunks |-> ChunkTextChunks(r)]
    ELSE [status |-> 500, chunks |-> <<>>]

\* longest text of a /chunk request of the model
MaxRequestLen == 3

\* a client posts a /chunk request
ChunkText ==
    /\ pc = "idle"
    /\ \E strategy \in ChunkTextStrategies \cup {"unknown"},
          t \in Texts(MaxRequestLen),
          cs \in 0..MaxSize, ov \in 0..MaxOverlap,
          parent \in {0, 2}, child \in {0, 1} :
          LET r == [text |-> t, strategy |-> strategy, chunk_size |-> cs,
                    overlap |-> ov, parent_chunk_size |-> parent,
                    child_chunk_size |-> child]
          IN  /\ args' = r
              /\ result' = ChunkTextResponse(r)
    /\ fn' = "chunk_text"
    /\ pc' = "done"
    /\ UNCHANGED <<text, chunk_size, overlap, child_size, pos, chunk_id, chunks>>
    /\ UNCHANGED sessionVars

NextChunkText == ChunkText

SpecChunkText == InitIdle /\ [][NextChunkText]_vars

\* C11: a chunking request that names an unknown strategy is answered with
\* an invalid-argument (HTTP 400) error: it never produces chunks and is
\* never reported as an internal (HTTP 500) failure.
C11_UnknownStrategyIs400 ==
    (fn = "chunk_text" /\ args.strategy \notin ChunkTextStrategies) =>
        /\ result.status = 400
        /\ result.chunks = <<>>

\* C12: the chunk operation on empty input text returns an empty chunk
\* sequence and no error, for each of the fixed-size, sentence, paragraph
\* and hierarchical strategies and every parameter choice.
C12_EmptyTextNoChunks ==
    (fn = "chunk_text" /\ args.text = <<>>
        /\ args.strategy \in ChunkTextStrategies) =>
        /\ result.status = 200
        /\ result.chunks = <<>>

C12_Witness ==
    /\ fn = "chunk_text"
    /\ args.text = <<>>
    /\ args.strategy = "hierarchical"
    /\ args.overlap > PyOr(args.parent_chunk_size, DefaultParentChunkSize)
    /\ result.status = 200

----------------------------------------------------------------------------
(* The Flask session of one client whose requests follow one another; args  *)
(* keeps the body of the request received last                              *)

Client == "c1"

\* the request bodies of the one-client session
SeqTexts == {<<>>, <<" ">>, <<"a", "b", ".", " ", "b", "a", ".">>}
SeqStrategies == ProcessStrategies \cup {"unknown"}
SeqMethods == EmbeddingMethods \cup {"word2vec"}

\* what the process-document call of request r comes to: rejected or failed
\* with nothing stored, or on its way to store its chunks and embeddings
ProcessOutcome(r) ==
    IF r.pc = "idle"
    THEN [status |-> r.status, chunks |-> 0, method |-> "none"]
    ELSE [status |-> 200, chunks |-> Len(r.chunks),
          method |-> r.embeddings_data[1].method]

\* the client posts a process-document request
ReceiveProcessDocument ==
    /\ req[Client].pc = "idle"
    /\ \E t \in SeqTexts, strategy \in SeqStrategies,
          method \in EmbeddingMethods, model_id \in ModelIds :
          /\ ProcessDocumentOn(Client, t, strategy, method, model_id)
          /\ args' = [kind |-> "process", text |-> t, strategy |-> strategy,
                      embedding_method |-> method, embedding_model |-> model_id,
                      query |-> <<>>, top_k |-> 0]
    /\ result' = Some(ProcessOutcome(req'[Client]))

\* the client posts a search-chunks request
ReceiveSearchChunks ==
    /\ req[Client].pc = "idle"
    /\ \E query \in Queries \cup {<<" ">>}, top_k \in TopKs :
          /\ SearchChunksOn(Client, query, top_k)
          /\ args' = [kind |-> "search", text |-> <<>>, strategy |-> "",
                      embedding_method |-> "", embedding_model |-> "",
                      query |-> query, top_k |-> top_k]
    /\ UNCHANGED result

NextSession ==
    \/ ReceiveProcessDocument
    \/ StoreChunks(Client)
    \/ StoreEmbeddings(Client)
    \/ ReceiveSearchChunks
    \/ SearchCheckEmbeddings(Client)
    \/ SearchReadMethod(Client)
    \/ SearchQueryEmbedding(Client)
    \/ SearchSimilarities(Client)
    \/ SearchTopIndices(Client)
    \/ SearchCollect(Client)
    \/ SearchRespond(Client)

SpecSession == InitFlask /\ [][NextSession]_vars

\* the request received last is a process-document call with blank text or
\* an unknown strategy, or a search call with a blank query
InvalidRequest(a) ==
    \/ /\ a.kind = "process"
       /\ (Strip(a.text) = <<>> \/ a.strategy \notin ProcessStrategies)
    \/ /\ a.kind = "search"
       /\ Strip(a.query) = <<>>

\* C13: in the Flask backend, a process-document call with empty or
\* whitespace-only text or with an unknown strategy, and a search call with
\* an empty or whitespace-only query, are rejected with an error before any
\* embedding-backend call is made, and they leave the stored chunk set and
\* the stored embedding set unchanged.
C13_ValidationRejects ==
    /\ [](started > 0 /\ InvalidRequest(args) =>
            /\ req[Client].pc = "idle"
            /\ req[Client].kind = args.kind
            /\ req[Client].status = 400
            /\ req[Client].backend_calls = 0)
    /\ [][started' = started + 1 /\ InvalidRequest(args') =>
            /\ processor_chunks' = processor_chunks
            /\ processor_embeddings' = processor_embeddings]_vars

C13_Witness ==
    /\ started > 1
    /\ processor_chunks # <<>>
    /\ args.kind = "process"
    /\ args.text = <<" ">>
    /\ args.embedding_method = "bedrock"
    /\ bedrock_available
    /\ req[Client].status = 400

----------------------------------------------------------------------------
(* The batch embedding of the Flask backend and the embed endpoint: args    *)
(* names the texts by their positions 1..n, and `failing` is the set of     *)
(* positions whose Bedrock call fails                                       *)

\* most texts of one batch call, and the largest batch size of the model
MaxBatchTexts == 4
MaxBatchSize == 3
\* batch_size=25, the default of get_bedrock_embeddings_batch
DefaultBatchSize == 25

\* get_bedrock_embedding raises for text k: Bedrock is not available, the
\* model id is neither a Titan nor a Cohere one, or the service call fails
ItemRaises(k, model_id, failing) ==
    \/ ~bedrock_available
    \/ model_id \notin KnownModels
    \/ k \in failing

\* the vector the service answers with for text k
ItemVector(k, model_id) == Vec(ModelDimensions(model_id), k)

\* BEDROCK_MODELS['embedding'][model_id] raises KeyError
FallbackRaises(model_id) == model_id \notin KnownModels

\* `for text in batch` over the positions from k to last: the vectors
\* appended to batch_embeddings, or the exception that leaves the function
RECURSIVE BatchItems(_, _, _, _, _)
BatchItems(k, last, model_id, failing, batch_embeddings) ==
    IF k > last THEN [raised |-> FALSE, embeddings |-> batch_embeddings]
    ELSE IF ~ItemRaises(k, model_id, failing)
    THEN BatchItems(k + 1, last, model_id, failing,
                    Append(batch_embeddings, ItemVector(k, model_id)))
    ELSE IF FallbackRaises(model_id)
    THEN [raised |-> TRUE, embeddings |-> <<>>]
    ELSE BatchItems(k + 1, last, model_id, failing,
                    Append(batch_embeddings, Vec(ModelDimensions(model_id), 0)))

\* `for i in range(0, len(texts), batch_size)` from i on
RECURSIVE BatchLoop(_, _, _, _, _, _)
BatchLoop(n, model_id, batch_size, failing, i, embeddings) ==
    IF i >= n THEN [raised |-> FALSE, embeddings |-> embeddings]
    ELSE LET batch == BatchItems(i + 1, Min(i + batch_size, n), model_id,
                                 failing, <<>>)
         IN  IF batch.raised THEN batch
             ELSE BatchLoop(n, model_id, batch_size, failing, i + batch_size,
                            embeddings \o batch.embeddings)

GetBedrockEmbeddingsBatch(n, model_id, batch_size, failing) ==
    BatchLoop(n, model_id, batch_size, failing, 0, <<>>)

\* the positions whose vector is the zero-vector fallback
Substituted(n, model_id, failing) ==
    {k \in 1..n : ItemRaises(k, model_id, failing)}

\* a caller invokes get_bedrock_embeddings_batch
CallBatch ==
    /\ pc = "idle"
    /\ \E n \in 0..MaxBatchTexts, model_id \in ModelIds,
          batch_size \in 1..MaxBatchSize :
       \E failing \in SUBSET (1..n) :
          /\ args' = [n |-> n, model_id |-> model_id,
                      batch_size |-> batch_size, failing |-> failing]
          /\ result' = GetBedrockEmbeddingsBatch(n, model_id, batch_size, failing)
    /\ fn' = "get_bedrock_embeddings_batch"
    /\ pc' = "done"
    /\ UNCHANGED <<text, chunk_size, overlap, child_size, pos, chunk_id, chunks>>
    /\ UNCHANGED sessionVars

\* the response of bedrock_embed to n texts
BedrockEmbedResponse(n, model_id, failing) ==
    LET none == [status |-> 0, success |-> FALSE, embeddings |-> <<>>,
                 model_id |-> "", dimensions |-> 0, count |-> 0]
        b    == GetBedrockEmbeddingsBatch(n, model_id, DefaultBatchSize, failing)
    IN  IF n = 0 THEN [none EXCEPT !.status = 400]
        ELSE IF ~bedrock_available THEN [none EXCEPT !.status = 503]
        ELSE IF b.raised THEN [none EXCEPT !.status = 500]
        ELSE [status     |-> 200,
              success    |-> TRUE,
              embeddings |-> b.embeddings,
              model_id   |-> model_id,
              dimensions |-> b.embeddings[1].dimensions,
              count      |-> Len(b.embeddings)]

\* a client posts an /api/bedrock/embed request
BedrockEmbed ==
    /\ pc = "idle"
    /\ \E n \in 0..MaxBatchTexts, model_id \in ModelIds :
       \E failing \in SUBSET (1..n) :
          /\ args' = [n |-> n, model_id |-> model_id,
                      batch_size |-> DefaultBatchSize, failing |-> failing]
          /\ result' = BedrockEmbedResponse(n, model_id, failing)
    /\ fn' = "bedrock_embed"
    /\ pc' = "done"
    /\ UNCHANGED <<text, chunk_size, overlap, child_size, pos, chunk_id, chunks>>
    /\ UNCHANGED sessionVars

NextEmbed == CallBatch \/ BedrockEmbed

SpecEmbed == InitFlask /\ [][NextEmbed]_vars

\* C14: get_bedrock_embeddings_batch returns exactly one vector per input
\* text, in input order, for every batch size, every model id and every
\* set of items whose backend call fails: a failing item yields a zero
\* vector in its own position and never aborts the batch, and no other
\* item is dropped or shifted.
C14_OneVectorPerText ==
    fn = "get_bedrock_embeddings_batch" =>
        /\ ~result.raised
        /\ Len(result.embeddings) = args.n
        /\ \A k \in 1..args.n :
              result.embeddings[k].direction =
                  IF ItemRaises(k, args.model_id, args.failing) THEN 0 ELSE k

\* C15: whenever the batch embedding substitutes a zero vector for a failed
\* item, the result returned to the caller of the embed endpoint carries a
\* count equal to the number of items replaced by zero vectors.
C15_SubstitutionsReported ==
    (/\ fn = "bedrock_embed"
     /\ result.status = 200
     /\ Substituted(args.n, args.model_id, args.failing) # {}) =>
        result.count = Cardinality(Substituted(args.n, args.model_id, args.failing))

----------------------------------------------------------------------------
(* Claims about the embedding method of the one-client Flask session *)

\* the request received last is answered
Answered == started > 0 /\ req[Client].pc = "idle"

\* C16: when the Bedrock embedding method is requested while the Bedrock
\* client is not configured, process-document ends, for every strategy, in
\* an explicit backend-unavailable error (HTTP 503): it never returns a
\* success result and never stores or returns vectors.
C16_UnconfiguredIsUnavailable ==
    (/\ Answered
     /\ ~bedrock_available
     /\ args.kind = "process"
     /\ args.embedding_method = "bedrock"
     /\ ~InvalidRequest(args)) =>
        req[Client].status = 503

----------------------------------------------------------------------------
(* chunk_by_semantic of the Flask backend called on its own *)

SemanticTexts ==
    {<<>>, <<" ">>, <<"a", "b", ".">>, <<"a", ".", " ", " ", "b">>,
     <<"a", "b", ".", " ", "b", "a", ".">>,
     <<"a", ".", " ", "b", "!", " ", "a", "?">>}

\* a caller invokes chunk_by_semantic
CallSemantic ==
    /\ pc = "idle"
    /\ \E t \in SemanticTexts, method \in SeqMethods, model_id \in ModelIds :
       \E o \in ChunkBySemantic(t, method, model_id) :
          /\ args' = [text |-> t, embedding_method |-> method,
                      embedding_model |-> model_id]
          /\ result' = o
    /\ fn' = "chunk_by_semantic"
    /\ pc' = "done"
    /\ UNCHANGED <<text, chunk_size, overlap, child_size, pos, chunk_id, chunks>>
    /\ UNCHANGED sessionVars

NextSemantic == CallSemantic

SpecSemantic == InitFlask /\ [][NextSemantic]_vars

\* C17: semantic chunking fails closed: when the Bedrock backend is not
\* available, when the selected embedding method is not the Bedrock one, or
\* when the semantic splitter raises, chunk_by_semantic returns an empty
\* chunk list; it never returns chunks of another strategy or of another
\* embedding method.
C17_SemanticFailsClosed ==
    fn = "chunk_by_semantic" =>
        /\ (\/ ~bedrock_available
            \/ args.embedding_method # "bedrock"
            \/ result.split = None) => result.chunks = <<>>
        /\ \A k \in 1..Len(result.chunks) :
              result.chunks[k].embedding_method = "bedrock"

C17_Witness ==
    /\ fn = "chunk_by_semantic"
    /\ ~bedrock_available
    /\ args.embedding_method = "bedrock"
    /\ Len(SemanticSentencesFrom(args.text, 1)) = 3
    /\ result.chunks = <<>>

----------------------------------------------------------------------------
(* The dimensionality reduction of the two backends: the t-SNE step of the  *)
(* Flask generate_embeddings and the FastAPI /embed endpoint                *)

\* the largest corpus of the model
MaxCorpus == 52

\* the numbers of the reduction code
PerplexityCap == 30
DirectPerplexityCap == 5
TwoStageThreshold == 50
PcaComponentsCap == 50

\* the projection dimensions a request names
EmbedDimensions == {2, 3, 4}

\* no projection was invoked
NoProjection == [by |-> "none", perplexity |-> 0, pca_components |-> 0]

\* the fixed point np.array([[0, 0]])
ZeroPoint == << <<0, 0>> >>

\* generate_embeddings from `if len(chunks) > 1` on (app.py:441-455), for
\* the n rows of embeddings_dense: the projection invoked and the fixed
\* coordinates (none when t-SNE computes them)
FlaskReduction(n) ==
    IF n > 1
    THEN [status     |-> 200,
          projection |-> [by |-> "tsne", perplexity |-> Min(PerplexityCap, n - 1),
                          pca_components |-> 0],
          fixed      |-> <<>>]
    ELSE [status |-> 200, projection |-> NoProjection, fixed |-> ZeroPoint]

\* the reduction of /embed (main.py:433-455) for n embeddings
EmbedReduction(n, dimensions) ==
    IF dimensions \in {2, 3}
    THEN IF n > TwoStageThreshold
         THEN [by |-> "pca+tsne", perplexity |-> Min(PerplexityCap, n - 1),
               pca_components |-> Min(PcaComponentsCap, n - 1)]
         ELSE [by |-> "tsne", perplexity |-> Min(DirectPerplexityCap, n - 1),
               pca_components |-> 0]
    ELSE [by |-> "pca", perplexity |-> 0,
          pca_components |-> Min(dimensions, n - 1)]

\* the name get_model is defined nowhere in main.py: the call at
\* main.py:425 raises NameError
GetModelDefined == FALSE

\* the response of /embed to n chunks
EmbedResponse(n, dimensions) ==
    IF ~GetModelDefined
    THEN [status |-> 500, projection |-> NoProjection, fixed |-> <<>>]
    ELSE [status |-> 200, projection |-> EmbedReduction(n, dimensions),
          fixed |-> <<>>]

\* the Flask backend reduces the embeddings of n chunks
FlaskReduce ==
    /\ pc = "idle"
    /\ \E n \in 1..MaxCorpus :
          /\ args' = [backend |-> "flask", n |-> n, dimensions |-> 2]
          /\ result' = FlaskReduction(n)
    /\ fn' = "generate_embeddings"
    /\ pc' = "done"
    /\ UNCHANGED <<text, chunk_size, overlap, child_size, pos, chunk_id, chunks>>
    /\ UNCHANGED sessionVars

\* a client posts an /embed request with n chunks to the FastAPI backend
FastApiEmbed ==
    /\ pc = "idle"
    /\ \E n \in 1..MaxCorpus, dimensions \in EmbedDimensions :
          /\ args' = [backend |-> "fastapi", n |-> n, dimensions |-> dimensions]
          /\ result' = EmbedResponse(n, dimensions)
    /\ fn' = "embed"
    /\ pc' = "done"
    /\ UNCHANGED <<text, chunk_size, overlap, child_size, pos, chunk_id, chunks>>
    /\ UNCHANGED sessionVars

NextReduce == FlaskReduce \/ FastApiEmbed

SpecReduce == InitIdle /\ [][NextReduce]_vars

\* a reduction was asked for
Reduced == fn \in {"generate_embeddings", "embed"}

\* C18: for every corpus size n >= 2, the perplexity passed to t-SNE is at
\* most n - 1, at most 30 when n > 50 (after PCA) and at most 5 when
\* n <= 50 (t-SNE alone), in both backends.
C18_PerplexityBounds ==
    (/\ Reduced
     /\ args.n >= 2
     /\ result.projection.by \in {"tsne", "pca+tsne"}) =>
        /\ result.projection.perplexity <= args.n - 1
        /\ args.n > 50 => result.projection.perplexity <= 30
        /\ args.n <= 50 => result.projection.perplexity <= 5

\* C19: for a corpus of exactly one chunk, the dimensionality reduction
\* returns the fixed zero point and does not invoke t-SNE, in both backends.
C19_SingleChunkZeroPoint ==
    (Reduced /\ args.n = 1) =>
        /\ result.status = 200
        /\ result.fixed = ZeroPoint
        /\ result.projection = NoProjection

----------------------------------------------------------------------------
(* The ranking of the search operations: search_chunks of the Flask backend *)
(* from the similarities on, and /query of the FastAPI backend.  args.scores *)
(* holds, per chunk, what the vector comparison gives for the query: the    *)
(* cosine similarity in Flask, the distance FAISS computes in FastAPI       *)

\* most chunks of a searched corpus, and the largest score of the model
MaxChunks == 3
MaxScore == 2

\* a score as a fraction
Frac(n, d) == [num |-> n, den |-> d]
FracGeq(a, b) == a.num * b.den >= b.num * a.den

\* the results of search_chunks for the similarities sims with reranking
\* method 'none' (app.py:834-856)
FlaskSearchResults(sims, top_k) ==
    {LET initial_k   == Min(top_k * 3, Len(sims))
         top_indices == PySlice(Reverse(p), 0, initial_k)
         results     == PySlice(top_indices, 0, top_k)
     IN  [i \in 1..Len(results) |->
            [chunk_index |-> results[i],
             similarity  |-> Frac(sims[results[i] + 1], 1),
             rank        |-> i]] : p \in ArgSorts(sims)}

\* vectorstore.similarity_search_with_score(query, k): the k nearest
\* documents with their L2 distances, nearest first
SimilaritySearchWithScore(distances, k) ==
    {LET nearest == PySlice(p, 0, k)
     IN  [i \in 1..Len(nearest) |->
            [doc |-> nearest[i], score |-> distances[nearest[i] + 1]]] :
        p \in ArgSorts(distances)}

\* the results query_chunks builds from similar_docs (main.py:504-519)
QueryResults(similar_docs, similarity_metric) ==
    [i \in 1..Len(similar_docs) |->
        [chunk_index |-> similar_docs[i].doc,
         similarity  |-> IF similarity_metric = "euclidean"
                         THEN Frac(1, 1 + similar_docs[i].score)
                         ELSE Frac(similar_docs[i].score, 1),
         rank        |-> i]]

\* the Flask backend ranks the chunks of a stored document
FlaskSearch ==
    /\ pc = "idle"
    /\ \E n \in 1..MaxChunks, top_k \in 1..MaxChunks :
       \E sims \in [1..n -> 0..MaxScore] :
       \E results \in FlaskSearchResults(sims, top_k) :
          /\ args' = [scores |-> sims, top_k |-> top_k, metric |-> "cosine"]
          /\ result' = [status |-> 200, results |-> results]
    /\ fn' = "search_chunks"
    /\ pc' = "done"
    /\ UNCHANGED <<text, chunk_size, overlap, child_size, pos, chunk_id, chunks>>
    /\ UNCHANGED sessionVars

\* a client posts a /query request without reranking to the FastAPI backend
FastApiQuery ==
    /\ pc = "idle"
    /\ \E n \in 1..MaxChunks, top_k \in 1..MaxChunks,
          metric \in {"cosine", "euclidean"} :
       \E distances \in [1..n -> 0..MaxScore] :
       \E similar_docs \in SimilaritySearchWithScore(distances, top_k) :
          /\ args' = [scores |-> distances, top_k |-> top_k, metric |-> metric]
          /\ result' = IF bedrock_available
                        THEN [status  |-> 200,
                              results |-> QueryResults(similar_docs, metric)]
                        ELSE [status |-> 500, results |-> <<>>]
    /\ fn' = "query_chunks"
    /\ pc' = "done"
    /\ UNCHANGED <<text, chunk_size, overlap, child_size, pos, chunk_id, chunks>>
    /\ UNCHANGED sessionVars

NextSearch == FlaskSearch \/ FastApiQuery

SpecSearch == InitFlask /\ [][NextSearch]_vars

\* C20: for a fixed embedding matrix and query vector, a search under the
\* cosine metric without reranking returns results whose similarity scores
\* do not increase along the result list, and the score of the rank-1
\* result is at least the score of every candidate of the corpus, in the
\* search operation of both backends.
C20_ScoresNonIncreasing ==
    (/\ fn \in {"search_chunks", "query_chunks"}
     /\ args.metric = "cosine"
     /\ result.status = 200) =>
        /\ \A i, j \in 1..Len(result.results) :
              i < j => FracGeq(result.results[i].similarity,
                               result.results[j].similarity)
        /\ \A c \in 1..Len(args.scores) :
              FracGeq(result.results[1].similarity, Frac(args.scores[c], 1))

----------------------------------------------------------------------------
(* Reranking in the Flask backend (app.py:611-765).  A candidate is one of  *)
(* the initial results of search_chunks; its scores are exact fractions     *)

\* most chunks of a reranked corpus
MaxCandidates == 4
\* optimal_length = 150 of rerank_length_penalty
OptimalLength == 150

\* the greatest common divisor of a >= 0 and b >= 0
RECURSIVE Gcd(_, _)
Gcd(a, b) == IF b = 0 THEN a ELSE Gcd(b, a % b)

\* the fraction num / den, den > 0, in lowest terms
LowestTerms(num, den) ==
    LET g == Gcd(IF num < 0 THEN 0 - num ELSE num, den)
    IN  Frac(num \div g, den \div g)

FracAdd(a, b) == LowestTerms(a.num * b.den + b.num * a.den, a.den * b.den)
FracMul(a, b) == LowestTerms(a.num * b.num, a.den * b.den)
FracGt(a, b) == a.num * b.den > b.num * a.den

\* the method names apply_reranking of the Flask backend knows
FlaskRerankMethods ==
    {"bm25", "cross_encoder", "diversity", "length_penalty", "keyword_boost"}

\* the place of index x in the index list order, which is in
\* non-increasing order of keys: behind every index whose key is not less
RECURSIVE InsertPos(_, _, _, _)
InsertPos(order, x, keys, k) ==
    IF k > Len(order) \/ FracGt(keys[x], keys[order[k]]) THEN k
    ELSE InsertPos(order, x, keys, k + 1)

\* the place in front of the indexes whose key equals that of x
RECURSIVE InsertPosFront(_, _, _, _)
InsertPosFront(order, x, keys, k) ==
    IF k > Len(order) \/ ~FracGt(keys[order[k]], keys[x]) THEN k
    ELSE InsertPosFront(order, x, keys, k + 1)

\* the indexes 1..n in non-increasing order of keys, equal keys in
\* reversed order
RECURSIVE OrderUnstable(_, _)
OrderUnstable(keys, n) ==
    IF n = 0 THEN <<>>
    ELSE LET front == OrderUnstable(keys, n - 1)
             k     == InsertPosFront(front, n, keys, 1)
         IN  SubSeq(front, 1, k - 1) \o <<n>> \o SubSeq(front, k, Len(front))

\* the indexes 1..n in non-increasing order of keys, equal keys in
\* increasing order of index
RECURSIVE OrderDescending(_, _)
OrderDescending(keys, n) ==
    IF n = 0 THEN <<>>
    ELSE LET front == OrderDescending(keys, n - 1)
             k     == InsertPos(front, n, keys, 1)
         IN  SubSeq(front, 1, k - 1) \o <<n>> \o SubSeq(front, k, Len(front))

\* ties are reversed
SortedUnstable(s, keys) ==
    LET by_key == OrderUnstable(keys, Len(s))
    IN  [i \in 1..Len(s) |-> s[by_key[i]]]

\* sorted(s, key=..., reverse=True) and s.sort(key=..., reverse=True), keys
\* holding the key of every element: non-increasing keys, and elements of
\* equal key in the order they have in s
SortedDescending(s, keys) ==
    LET by_key == OrderDescending(keys, Len(s))
    IN  [i \in 1..Len(s) |-> s[by_key[i]]]

\* the weights of the similarity and of the method's own score in
\* combined_score, in hundredths (app.py:651, 680, 739, 763)
BlendWeights(method) ==
    CASE method = "bm25"           -> <<70, 30>>
      [] method = "cross_encoder"  -> <<60, 40>>
      [] method = "length_penalty" -> <<80, 20>>
      [] method = "keyword_boost"  -> <<75, 25>>

\* length_score of rerank_length_penalty
LengthScore(word_count) ==
    IF word_count <= OptimalLength
    THEN Frac(word_count, OptimalLength)
    ELSE Frac(OptimalLength, word_count)

\* the method's own term of combined_score for a candidate: the length
\* score, or the score the method derives from the texts of the query and
\* of the chunks (bm25_score over the running maximum, cross_encoder_score,
\* min(1.0, keyword_score)), which the candidate carries as text_score
MethodScore(method, r) ==
    IF method = "length_penalty" THEN LengthScore(r.word_count)
    ELSE r.text_score

CombinedScore(method, r) ==
    FracAdd(FracMul(Frac(BlendWeights(method)[1], 100), Frac(r.similarity_score, 1)),
            FracMul(Frac(BlendWeights(method)[2], 100), MethodScore(method, r)))

\* rerank_bm25, rerank_cross_encoder, rerank_length_penalty and
\* rerank_keyword_boost: every result gets its combined_score, and the
\* list is sorted by it
RerankBlended(results, method) ==
    LET scored == [i \in 1..Len(results) |->
                      [results[i] EXCEPT !.combined_score =
                                            Some(CombinedScore(method, results[i]))]]
    IN  SortedDescending(scored,
                         [i \in 1..Len(scored) |-> scored[i].combined_score[1]])

\* set(content.lower().split()) of a content given as its words
Lower(w) == IF w = "A" THEN "a" ELSE w
WordSet(content) == {Lower(content[i]) : i \in 1..Len(content)}

\* 1 - overlap / max(1, total) of two contents
Diversity(a, b) ==
    LET n_overlap == Cardinality(WordSet(a) \cap WordSet(b))
        n_total   == Cardinality(WordSet(a) \cup WordSet(b))
    IN  Frac(Max(1, n_total) - n_overlap, Max(1, n_total))

\* the sum of the diversities of candidate c from the first k selected
RECURSIVE DiversitySum(_, _, _)
DiversitySum(c, reranked, k) ==
    IF k = 0 THEN Frac(0, 1)
    ELSE FracAdd(DiversitySum(c, reranked, k - 1),
                 Diversity(c.content, reranked[k].content))

\* combined_score of rerank_diversity for a remaining candidate
DiversityCombined(c, reranked) ==
    FracAdd(FracMul(Frac(7, 10), Frac(c.similarity_score, 1)),
            FracMul(Frac(3, 10),
                    FracMul(DiversitySum(c, reranked, Len(reranked)),
                            Frac(1, Len(reranked)))))

\* `for candidate in remaining` from position k on: the index of
\* best_candidate (0 for None) and best_score
RECURSIVE BestCandidate(_, _, _, _, _)
BestCandidate(remaining, reranked, k, best, best_score) ==
    IF k > Len(remaining) THEN best
    ELSE LET combined_score == DiversityCombined(remaining[k], reranked)
         IN  IF FracGt(combined_score, best_score)
             THEN BestCandidate(remaining, reranked, k + 1, k, combined_score)
             ELSE BestCandidate(remaining, reranked, k + 1, best, best_score)

\* s without its element k
RemoveAt(s, k) == SubSeq(s, 1, k - 1) \o SubSeq(s, k + 1, Len(s))

\* an iteration that selects the best candidate and leaves it among the
\* remaining ones
DiversityStepKeeping(st) ==
    LET best == BestCandidate(st.remaining, st.reranked, 1, 0, Frac(0 - 1, 1))
    IN  IF best = 0 THEN st
        ELSE [reranked  |-> Append(st.reranked, st.remaining[best]),
              remaining |-> st.remaining]

\* one iteration of the while loop of rerank_diversity on the loop state
\* [reranked, remaining]: the best candidate, if there is one, moves
DiversityStep(st) ==
    LET best == BestCandidate(st.remaining, st.reranked, 1, 0, Frac(0 - 1, 1))
    IN  IF best = 0 THEN st
        ELSE [reranked  |-> Append(st.reranked, st.remaining[best]),
              remaining |-> RemoveAt(st.remaining, best)]

\* the while condition of rerank_diversity
DiversityRuns(st, n) == st.remaining # <<>> /\ Len(st.reranked) < n

\* the loop from the state st on: the list returned, or None when an
\* iteration leaves the state as it is and the loop never ends
RECURSIVE DiversityLoop(_, _)
DiversityLoop(st, n) ==
    IF ~DiversityRuns(st, n) THEN Some(st.reranked)
    ELSE IF DiversityStep(st) = st THEN None
    ELSE DiversityLoop(DiversityStep(st), n)

\* the loop state rerank_diversity starts from
DiversityStart(results) ==
    [reranked |-> <<results[1]>>, remaining |-> Tail(results)]

\* rerank_diversity(results): Some(list), or None when it does not return
RerankDiversity(results) ==
    IF Len(results) <= 1 THEN Some(results)
    ELSE DiversityLoop(DiversityStart(results), Len(results))

\* apply_reranking(results, query, method) of the Flask backend: Some(list),
\* or None when it does not return; `raises` says that the method's scoring
\* raised, which the handler answers with the list it was given
FlaskApplyReranking(results, method, raises) ==
    IF method \notin FlaskRerankMethods THEN Some(results)
    ELSE IF raises THEN Some(results)
    ELSE IF method = "diversity" THEN RerankDiversity(results)
    ELSE Some(RerankBlended(results, method))

\* the contents of the chunks of a reranked corpus, as their words
Contents == {<<"A">>, <<"a", "b">>}

\* what a chunk brings to a search with the given reranking method: its
\* similarity to the query and what the method reads of it
FlaskRows(method) ==
    [similarity : 0..1,
     content    : IF method = "diversity" THEN Contents ELSE {<<"a">>},
     word_count : IF method = "length_penalty"
                  THEN {OptimalLength - 50, OptimalLength * 2}
                  ELSE {OptimalLength},
     text_score : IF method \in {"bm25", "cross_encoder", "keyword_boost"}
                  THEN {Frac(0, 1), Frac(1, 1)}
                  ELSE {Frac(0, 1)}]

\* np.argsort(sims)[::-1] restricted to the 0-based indexes in S: the
\* orders in which the values do not increase (ArgSorts, reversed)
RECURSIVE DescendingOrders(_, _)
DescendingOrders(sims, S) ==
    IF S = {} THEN {<<>>}
    ELSE UNION {{<<i>> \o o : o \in DescendingOrders(sims, S \ {i})} :
                  i \in {j \in S : \A k \in S : sims[k + 1] <= sims[j + 1]}}

\* no over-fetch: as many candidates as results
InitialKNoOverfetch(top_k, n) == Min(top_k, n)

\* initial_k = min(top_k * 3, len(processor.chunks))
InitialK(top_k, n) == Min(top_k * 3, n)

\* initial_results of search_chunks (app.py:834-846), order being
\* np.argsort(similarities)[::-1]
InitialResults(rows, order, top_k) ==
    LET top_indices == PySlice(order, 0, InitialK(top_k, Len(rows)))
    IN  [i \in 1..Len(top_indices) |->
            [chunk_index      |-> top_indices[i],
             similarity_score |-> rows[top_indices[i] + 1].similarity,
             content          |-> rows[top_indices[i] + 1].content,
             word_count       |-> rows[top_indices[i] + 1].word_count,
             text_score       |-> rows[top_indices[i] + 1].text_score,
             initial_rank     |-> i,
             combined_score   |-> None,
             rank             |-> 0]]

\* every rank is the position of the first result
FinalRanksAllOne(results) ==
    [i \in 1..Len(results) |-> [results[i] EXCEPT !.rank = 1]]

\* `result['rank'] = int(i + 1)` for every result (app.py:856-858)
FinalRanks(results) ==
    [i \in 1..Len(results) |-> [results[i] EXCEPT !.rank = i]]

\* the results are taken from the end of the candidates
InitialFromEnd(initial_results, reranked, method, top_k) ==
    PySlice(Reverse(initial_results), 0, top_k)

\* results of search_chunks (app.py:849-853)
RerankedOrInitial(initial_results, reranked, method, top_k) ==
    IF method # "none" /\ Len(initial_results) > 1
    THEN PySlice(reranked, 0, top_k)
    ELSE PySlice(initial_results, 0, top_k)

\* the response of search_chunks from the similarities on; without a
\* status when the reranker does not return
FlaskRerankResponse(rows, order, top_k, method, raises) ==
    LET initial_results == InitialResults(rows, order, top_k)
        reranked        == FlaskApplyReranking(initial_results, method, raises)
    IN  IF method # "none" /\ Len(initial_results) > 1 /\ reranked = None
        THEN [status |-> 0, results |-> <<>>, initial_results |-> initial_results]
        ELSE [status          |-> 200,
              results         |-> FinalRanks(RerankedOrInitial(
                                      initial_results,
                                      IF reranked = None THEN <<>> ELSE reranked[1],
                                      method, top_k)),
              initial_results |-> initial_results]

\* the similarities of the rows
RowSimilarities(rows) == [i \in 1..Len(rows) |-> rows[i].similarity]

\* a client of the Flask backend searches a stored document of n chunks;
\* when the scoring raises, the scores it would have given do not matter
FlaskRerankSearch ==
    /\ pc = "idle"
    /\ \E method \in FlaskRerankMethods \cup {"none", "unknown"},
          n \in 1..MaxCandidates, top_k \in 1..2, raises \in BOOLEAN :
       \E rows \in [1..n -> FlaskRows(IF raises THEN "none" ELSE method)] :
       \E order \in DescendingOrders(RowSimilarities(rows), 0..(n - 1)) :
          /\ raises => method \in FlaskRerankMethods
          /\ args' = [backend |-> "flask", rows |-> rows, top_k |-> top_k,
                      metric |-> "cosine", method |-> method,
                      raises |-> raises, query_words |-> 1]
          /\ result' = FlaskRerankResponse(rows, order, top_k, method, raises)
    /\ fn' = "search_chunks"
    /\ pc' = "done"
    /\ UNCHANGED <<text, chunk_size, overlap, child_size, pos, chunk_id, chunks>>
    /\ UNCHANGED sessionVars

----------------------------------------------------------------------------
(* Reranking in the FastAPI backend (main.py:478-583) *)

\* the method names apply_reranking of the FastAPI backend knows
FastApiRerankMethods == {"cross-encoder", "bm25", "llm-rerank"}

\* what a chunk brings to a /query with the given reranking method: its
\* FAISS distance to the query, the number of the query's words it holds,
\* and the np.random.random() drawn for it
FastApiRows(method, query_words) ==
    [distance : 0..1,
     matched  : IF method \in {"cross-encoder", "bm25"}
                THEN 0..query_words ELSE {0},
     random   : IF method = "llm-rerank"
                THEN {Frac(0, 1), Frac(1, 2)} ELSE {Frac(0, 1)}]

\* the QueryResult list query_chunks builds (main.py:503-519)
RankedQueryResults(rows, similar_docs, similarity_metric) ==
    LET plain == QueryResults(similar_docs, similarity_metric)
    IN  [i \in 1..Len(plain) |->
            [chunk_index  |-> plain[i].chunk_index,
             similarity   |-> plain[i].similarity,
             rank         |-> plain[i].rank,
             matched      |-> rows[plain[i].chunk_index + 1].matched,
             random       |-> rows[plain[i].chunk_index + 1].random,
             rerank_score |-> None,
             final_rank   |-> i]]

\* result.rerank_score as the method assigns it
RerankScore(method, r, query_words) ==
    CASE method = "cross-encoder" ->
            FracMul(r.similarity,
                    FracAdd(Frac(7, 10),
                            FracMul(Frac(r.matched, query_words), Frac(3, 10))))
      [] method = "bm25" ->
            FracAdd(r.similarity, FracMul(Frac(r.matched, 1), Frac(1, 10)))
      [] method = "llm-rerank" ->
            FracMul(r.similarity,
                    FracAdd(Frac(8, 10), FracMul(r.random, Frac(4, 10))))

\* `x.rerank_score or 0`
RerankKey(r) ==
    IF r.rerank_score = None \/ r.rerank_score[1].num = 0
    THEN Frac(0, 1) ELSE r.rerank_score[1]

\* every final rank is that of the first result
FastApiFinalRanksAllOne(results) ==
    [i \in 1..Len(results) |-> [results[i] EXCEPT !.final_rank = 1]]

\* `result.final_rank = idx + 1` for every result (main.py:580-581)
FastApiFinalRanks(results) ==
    [i \in 1..Len(results) |-> [results[i] EXCEPT !.final_rank = i]]

\* apply_reranking(query, results, method) of the FastAPI backend: the
\* list returned, or the exception raised by len(query_words) = 0 in the
\* cross-encoder scoring
FastApiApplyReranking(results, method, query_words) ==
    IF method = "cross-encoder" /\ query_words = 0 /\ results # <<>>
    THEN [raised |-> TRUE, value |-> None]
    ELSE LET scored == IF method \in FastApiRerankMethods
                       THEN [i \in 1..Len(results) |->
                               [results[i] EXCEPT !.rerank_score =
                                   Some(RerankScore(method, results[i], query_words))]]
                       ELSE results
         IN  [raised |-> FALSE,
              value  |-> Some(IF method # "none"
                              THEN FastApiFinalRanks(SortedDescending(scored,
                                      [i \in 1..Len(scored) |-> RerankKey(scored[i])]))
                              ELSE scored)]

\* the response of /query from the FAISS search on
FastApiRerankResponse(rows, similar_docs, metric, method, query_words) ==
    LET results  == RankedQueryResults(rows, similar_docs, metric)
        reranked == FastApiApplyReranking(results, method, query_words)
    IN  IF method = "none"
        THEN [status |-> 200, results |-> results, initial_results |-> results]
        ELSE IF reranked.raised
        THEN [status |-> 500, results |-> <<>>, initial_results |-> results]
        ELSE [status |-> 200, results |-> reranked.value[1],
              initial_results |-> results]

\* the distances of the rows
RowDistances(rows) == [i \in 1..Len(rows) |-> rows[i].distance]

\* a client posts a /query request to the FastAPI backend
FastApiRerankQuery ==
    /\ pc = "idle"
    /\ bedrock_available
    /\ \E method \in FastApiRerankMethods \cup {"none", "unknown"},
          n \in 1..MaxChunks, top_k \in 1..2, query_words \in 0..1,
          metric \in {"cosine", "euclidean"} :
       \E rows \in [1..n -> FastApiRows(method, query_words)] :
       \E similar_docs \in SimilaritySearchWithScore(RowDistances(rows), top_k) :
          /\ args' = [backend |-> "fastapi", rows |-> rows, top_k |-> top_k,
                      metric |-> metric, method |-> method,
                      raises |-> FALSE, query_words |-> query_words]
          /\ result' = FastApiRerankResponse(rows, similar_docs, metric, method,
                                             query_words)
    /\ fn' = "query_chunks"
    /\ pc' = "done"
    /\ UNCHANGED <<text, chunk_size, overlap, child_size, pos, chunk_id, chunks>>
    /\ UNCHANGED sessionVars

\* apply_reranking of the Flask backend is called on the candidates of a
\* search, or on no candidate
CallFlaskApplyReranking ==
    /\ pc = "idle"
    /\ \E method \in FlaskRerankMethods \cup {"none", "unknown"},
          n \in 0..MaxChunks, raises \in BOOLEAN :
       \E rows \in [1..n -> FlaskRows(IF raises THEN "none" ELSE method)] :
       \E order \in DescendingOrders(RowSimilarities(rows), 0..(n - 1)) :
          LET results == InitialResults(rows, order, n)
          IN  /\ raises => method \in FlaskRerankMethods /\ n > 0
              /\ args' = [backend |-> "flask", results |-> results,
                          method |-> method, raises |-> raises,
                          query_words |-> 1]
              /\ result' = [raised |-> FALSE,
                            value  |-> FlaskApplyReranking(results, method, raises)]
    /\ fn' = "apply_reranking"
    /\ pc' = "done"
    /\ UNCHANGED <<text, chunk_size, overlap, child_size, pos, chunk_id, chunks>>
    /\ UNCHANGED sessionVars

\* apply_reranking of the FastAPI backend is called on the results of a
\* query, or on no result
CallFastApiApplyReranking ==
    /\ pc = "idle"
    /\ \E method \in FastApiRerankMethods \cup {"none", "unknown"},
          n \in 0..MaxChunks, query_words \in 0..1 :
       \E rows \in [1..n -> FastApiRows(method, query_words)] :
       \E similar_docs \in SimilaritySearchWithScore(RowDistances(rows), n) :
          LET results == RankedQueryResults(rows, similar_docs, "cosine")
          IN  /\ args' = [backend |-> "fastapi", results |-> results,
                          method |-> method, raises |-> FALSE,
                          query_words |-> query_words]
              /\ result' = FastApiApplyReranking(results, method, query_words)
    /\ fn' = "apply_reranking"
    /\ pc' = "done"
    /\ UNCHANGED <<text, chunk_size, overlap, child_size, pos, chunk_id, chunks>>
    /\ UNCHANGED sessionVars

\* the Bedrock client is configured, and no call has been made yet
InitConfigured ==
    /\ ChunkerIdle
    /\ SessionStart
    /\ bedrock_available = TRUE
    /\ args = None
    /\ result = None

NextRerank ==
    \/ FlaskRerankSearch
    \/ FastApiRerankQuery
    \/ CallFlaskApplyReranking
    \/ CallFastApiApplyReranking

SpecRerank == InitConfigured /\ [][NextRerank]_vars

----------------------------------------------------------------------------
(* Claims about the searches with reranking *)

\* a search of the given backend was answered with results
Searched(backend) ==
    /\ fn \in {"search_chunks", "query_chunks"}
    /\ args.backend = backend
    /\ result.status = 200

\* C21: for every top_k >= 1 and corpus size n >= 1, the Flask search
\* prepares for the reranker exactly the min(3 * top_k, n) chunks of highest
\* similarity, and returns exactly min(top_k, n) results after reranking.
C21_OverFetch ==
    Searched("flask") =>
        LET n       == Len(args.rows)
            fetched == {result.initial_results[i].chunk_index :
                           i \in 1..Len(result.initial_results)}
        IN  /\ Len(result.initial_results) = Min(3 * args.top_k, n)
            /\ Cardinality(fetched) = Len(result.initial_results)
            /\ \A i \in 1..Len(result.initial_results) :
                  LET r == result.initial_results[i]
                  IN  /\ r.similarity_score = args.rows[r.chunk_index + 1].similarity
                      /\ \A c \in (0..(n - 1)) \ fetched :
                            args.rows[c + 1].similarity <= r.similarity_score
            /\ Len(result.results) = Min(args.top_k, n)

C21_Witness ==
    /\ Searched("flask")
    /\ args.method = "bm25"
    /\ ~args.raises
    /\ Len(args.rows) = 4
    /\ args.top_k = 1
    /\ Len(result.initial_results) = 3
    /\ Len(result.results) = 1
    /\ result.results[1].initial_rank = 3

\* the similarity a result carries
SimilarityOf(r, backend) ==
    IF backend = "flask" THEN Frac(r.similarity_score, 1) ELSE r.similarity

\* C22: with rerank method "none", result i of the search is the i-th
\* candidate of the initial retrieval, with its similarity score unchanged,
\* in both backends.
C22_NoneKeepsOrder ==
    \A backend \in {"flask", "fastapi"} :
        (Searched(backend) /\ args.method = "none") =>
            /\ Len(result.results) <= Len(result.initial_results)
            /\ \A i \in 1..Len(result.results) :
                  /\ result.results[i].chunk_index =
                         result.initial_results[i].chunk_index
                  /\ SimilarityOf(result.results[i], backend) =
                         SimilarityOf(result.initial_results[i], backend)

C22_Witness ==
    /\ Searched("flask")
    /\ args.method = "none"
    /\ Len(args.rows) = 4
    /\ args.top_k = 2
    /\ result.results[1].similarity_score > result.results[2].similarity_score
    /\ result.results[2].chunk_index = result.initial_results[2].chunk_index

\* the blended score a reranked result is sorted by
BlendedScoreOf(r, backend) ==
    IF backend = "flask" THEN r.combined_score[1] ELSE RerankKey(r)

\* the final rank a result carries
FinalRankOf(r, backend) == IF backend = "flask" THEN r.rank ELSE r.final_rank

\* the search blended the similarity with a score of the method
Blended(backend) ==
    IF backend = "flask"
    THEN /\ args.method \in {"bm25", "cross_encoder", "length_penalty", "keyword_boost"}
         /\ ~args.raises
         /\ Len(result.initial_results) > 1
    ELSE args.method \in {"bm25", "cross-encoder"}

\* C23: after a search with any rerank method, the final ranks of the m
\* returned results are 1, 2, ..., m in list order, and for the methods
\* that blend scores the list is in non-increasing order of the blended
\* score.
C23_FinalRanks ==
    \A backend \in {"flask", "fastapi"} :
        Searched(backend) =>
            /\ \A i \in 1..Len(result.results) :
                  FinalRankOf(result.results[i], backend) = i
            /\ Blended(backend) =>
                  \A i, j \in 1..Len(result.results) :
                      i < j => FracGeq(BlendedScoreOf(result.results[i], backend),
                                       BlendedScoreOf(result.results[j], backend))

C23_Witness ==
    /\ Searched("flask")
    /\ args.method = "keyword_boost"
    /\ ~args.raises
    /\ Len(result.results) = 2
    /\ result.results[1].initial_rank = 3
    /\ result.results[2].rank = 2
    /\ FracGt(result.results[1].combined_score[1], result.results[2].combined_score[1])

\* the method name is not one the backend's apply_reranking knows
UnknownMethod ==
    IF args.backend = "flask" THEN args.method \notin FlaskRerankMethods
    ELSE args.method \notin FastApiRerankMethods

\* C24: apply_reranking called with a method name it does not know, or
\* with an empty candidate list under any method, returns its input list
\* unchanged (same elements, same order) and raises no error, in both
\* backends.
C24_UnknownOrEmptyUnchanged ==
    (fn = "apply_reranking" /\ (UnknownMethod \/ args.results = <<>>)) =>
        /\ ~result.raised
        /\ result.value = Some(args.results)

C24_Witness ==
    /\ fn = "apply_reranking"
    /\ args.backend = "fastapi"
    /\ args.method = "unknown"
    /\ Len(args.results) = 3
    /\ args.results[1].similarity = args.results[3].similarity
    /\ result.value = Some(args.results)

\* the scoring of the reranking method raised
ScoringFailed ==
    \/ args.backend = "flask" /\ args.raises
    \/ /\ args.backend = "fastapi"
       /\ args.method = "cross-encoder"
       /\ args.query_words = 0

\* C25: a failure raised inside a reranking method's scoring never aborts
\* the search request in either backend: the request succeeds and returns
\* the candidates in their order before reranking.
C25_ScoringFailureDegrades ==
    (fn \in {"search_chunks", "query_chunks"} /\ ScoringFailed) =>
        /\ result.status = 200
        /\ \A i \in 1..Len(result.results) :
              result.results[i].chunk_index = result.initial_results[i].chunk_index

----------------------------------------------------------------------------
(* rerank_diversity, one iteration of its while loop at a time.  The loop
   state [reranked, remaining] is held in result, the list passed in args,
   and chunk_id counts the iterations. *)

\* the candidates of a search under any of the three metrics: dot_product
\* gives similarities of either sign and of any size
DiversityRows ==
    [similarity : (0 - MaxScore)..MaxScore,
     content    : Contents,
     word_count : {OptimalLength},
     text_score : {Frac(0, 1)}]

\* rerank_diversity is entered with the candidates of a search, in
\* descending order of similarity
CallDiversity ==
    /\ pc = "idle"
    /\ \E n \in 1..MaxChunks :
       \E rows \in [1..n -> DiversityRows] :
       \E order \in DescendingOrders(RowSimilarities(rows), 0..(n - 1)) :
          LET results == InitialResults(rows, order, n)
          IN  /\ args' = [results |-> results]
              /\ IF Len(results) <= 1
                 THEN /\ result' = [reranked |-> results, remaining |-> <<>>]
                      /\ pc' = "done"
                 ELSE /\ result' = DiversityStart(results)
                      /\ pc' = "diversity_loop"
    /\ fn' = "rerank_diversity"
    /\ chunk_id' = 0
    /\ UNCHANGED <<text, chunk_size, overlap, child_size, pos, chunks>>
    /\ UNCHANGED sessionVars

\* one iteration of `while remaining and len(reranked) < len(results)`
DiversityIter ==
    /\ pc = "diversity_loop"
    /\ DiversityRuns(result, Len(args.results))
    /\ chunk_id < MaxIter
    /\ result' = DiversityStep(result)
    /\ chunk_id' = chunk_id + 1
    /\ UNCHANGED <<text, chunk_size, overlap, child_size, pos, chunks, fn, pc, args>>
    /\ UNCHANGED sessionVars

\* the while condition fails and `return reranked` is reached
DiversityReturn ==
    /\ pc = "diversity_loop"
    /\ ~DiversityRuns(result, Len(args.results))
    /\ pc' = "done"
    /\ UNCHANGED <<text, chunk_size, overlap, child_size, pos, chunk_id, chunks,
                   fn, args, result>>
    /\ UNCHANGED sessionVars

NextDiversity == CallDiversity \/ DiversityIter \/ DiversityReturn

SpecDiversity == InitIdle /\ [][NextDiversity]_vars

\* the chunk indices of a list of results, in list order
ChunkIndices(results) == [i \in 1..Len(results) |-> results[i].chunk_index]

\* C26: the list rerank_diversity returns contains every input candidate
\* exactly once, and its first element is the input candidate of highest
\* similarity.
C26_DiversityPermutes ==
    (fn = "rerank_diversity" /\ pc = "done") =>
        LET out == ChunkIndices(result.reranked)
            inp == ChunkIndices(args.results)
        IN  /\ Len(out) = Len(inp)
            /\ \A c \in {inp[i] : i \in 1..Len(inp)} : Cardinality({i \in 1..Len(out) : out[i] = c}) = 1
            /\ result.reranked[1] = args.results[1]
            /\ \A i \in 1..Len(args.results) :
                  result.reranked[1].similarity_score >= args.results[i].similarity_score

C26_Witness ==
    /\ fn = "rerank_diversity"
    /\ pc = "done"
    /\ Len(args.results) = 3
    /\ chunk_id = 2
    /\ result.reranked[2] = args.results[3]
    /\ result.reranked[3] = args.results[2]

\* C29: every iteration of the loop of rerank_diversity moves exactly one
\* candidate from the remaining ones to the reranked ones, for every
\* candidate list and every similarity scores, those at or below -1
\* included, so that the loop terminates.
C29_IterationMovesOne ==
    [][(pc = "diversity_loop" /\ chunk_id' # chunk_id) =>
          /\ Len(result'.reranked) = Len(result.reranked) + 1
          /\ Len(result'.remaining) = Len(result.remaining) - 1]_vars

----------------------------------------------------------------------------
(* The guardrails and the generation of the FastAPI backend.  A query and a
   chunk content are given as their words, a prompt and a generated text as
   their number of words. *)

\* relevance_ratio >= 0.4 is enough to pass
RelevanceStatusTwoLevels(relevance_ratio) ==
    IF FracGeq(relevance_ratio, Frac(4, 10)) THEN "pass" ELSE "fail"

\* the number of the first k chunks that share a word with the query
RECURSIVE RelevantChunks(_, _, _)
RelevantChunks(query_words, chunks_, k) ==
    IF k = 0 THEN 0
    ELSE RelevantChunks(query_words, chunks_, k - 1)
         + (IF query_words \cap WordSet(chunks_[k]) # {} THEN 1 ELSE 0)

\* relevant_chunks / len(chunks) if chunks else 0
RelevanceRatio(relevant_chunks, n) ==
    IF n > 0 THEN Frac(relevant_chunks, n) ELSE Frac(0, 1)

\* the status of the context-relevance finding
RelevanceStatus(relevance_ratio) ==
    IF FracGeq(relevance_ratio, Frac(7, 10)) THEN "pass"
    ELSE IF FracGeq(relevance_ratio, Frac(4, 10)) THEN "warning"
    ELSE "fail"

\* int(relevance_ratio * 100)
RelevancePercent(relevance_ratio) ==
    (relevance_ratio.num * 100) \div relevance_ratio.den

\* the message of the context-relevance finding
RelevanceMessage(status, percent) ==
    IF status = "pass"
    THEN [prefix |-> "", percent |-> percent, suffix |-> "% of context is relevant"]
    ELSE IF status = "warning"
    THEN [prefix |-> "Only ", percent |-> percent, suffix |-> "% of context is relevant"]
    ELSE [prefix |-> "Low relevance: ", percent |-> percent, suffix |-> "%"]

\* len(text.split()) * 1.3
TokenEstimate(words) == Frac(words * 13, 10)

\* the status of the token-length finding
TokenStatus(estimated_tokens) ==
    IF FracGeq(Frac(2000, 1), estimated_tokens) THEN "pass"
    ELSE IF FracGeq(Frac(4000, 1), estimated_tokens) THEN "warning"
    ELSE "fail"

\* run_guardrails(query, chunks, prompt): the two findings
RunGuardrails(query, chunks_, prompt_words) ==
    LET relevant_chunks == RelevantChunks(WordSet(query), chunks_, Len(chunks_))
        relevance_ratio == RelevanceRatio(relevant_chunks, Len(chunks_))
        status          == RelevanceStatus(relevance_ratio)
        estimated       == TokenEstimate(prompt_words)
    IN  << [id       |-> "context-relevance",
            status   |-> status,
            message  |-> RelevanceMessage(status, RelevancePercent(relevance_ratio)),
            severity |-> "high"],
           [id       |-> "token-length",
            status   |-> TokenStatus(estimated),
            message  |-> [prefix  |-> "",
                          percent |-> estimated.num \div estimated.den,
                          suffix  |-> " tokens"],
            severity |-> "high"] >>

\* get_bedrock_llm(model_id): the status it raises, 0 when it returns a model
GetBedrockLlm(available, init_fails) ==
    IF ~available THEN 503
    ELSE IF init_fails THEN 400
    ELSE 0

\* generate_response(request): the exception of get_bedrock_llm reaches the
\* outer handler, the one of llm.invoke the inner one
GenerateResponseOf(available, a) ==
    IF GetBedrockLlm(available, a.init_fails) # 0
    THEN [status |-> 500, detail |-> "Generation failed"]
    ELSE LET generated_response ==
                 IF a.invoke_fails
                 THEN [error |-> TRUE, words |-> 3 + a.reply_words]
                 ELSE [error |-> FALSE, words |-> a.reply_words]
         IN  [status             |-> 200,
              generated_response |-> generated_response,
              guardrail_results  |-> RunGuardrails(a.query, a.chunks, a.prompt_words),
              token_usage        |->
                  [prompt_tokens     |-> TokenEstimate(a.prompt_words),
                   completion_tokens |-> TokenEstimate(generated_response.words),
                   total_tokens      |-> FracAdd(TokenEstimate(a.prompt_words),
                                                 TokenEstimate(generated_response.words))],
              context_chunks     |-> Len(a.chunks)]

GuardrailQueries == {<<>>, <<"a">>, <<"A">>, <<"b">>, <<"c">>}
GuardrailContents == {<<"A">>, <<"a", "b">>, <<"c">>}
PromptLengths == {10, 1539, 3077}

\* the lists of at most n chunk contents
RECURSIVE ContentLists(_)
ContentLists(n) ==
    IF n = 0 THEN {<<>>}
    ELSE ContentLists(n - 1) \cup [1..n -> GuardrailContents]

\* run_guardrails is called
CallRunGuardrails ==
    /\ pc = "idle"
    /\ \E query \in GuardrailQueries, chunks_ \in ContentLists(MaxChunks),
          prompt_words \in PromptLengths :
          /\ args' = [query |-> query, chunks |-> chunks_,
                      prompt_words |-> prompt_words]
          /\ result' = RunGuardrails(query, chunks_, prompt_words)
    /\ fn' = "run_guardrails"
    /\ pc' = "done"
    /\ UNCHANGED <<text, chunk_size, overlap, child_size, pos, chunk_id, chunks>>
    /\ UNCHANGED sessionVars

\* POST /generate is answered
GenerateResponse ==
    /\ pc = "idle"
    /\ \E query \in GuardrailQueries, chunks_ \in ContentLists(MaxChunks - 1),
          prompt_words \in PromptLengths, reply_words \in 1..2,
          init_fails \in BOOLEAN, invoke_fails \in BOOLEAN :
          LET a == [query |-> query, chunks |-> chunks_,
                    prompt_words |-> prompt_words, reply_words |-> reply_words,
                    init_fails |-> init_fails, invoke_fails |-> invoke_fails]
          IN  /\ args' = a
              /\ result' = GenerateResponseOf(bedrock_available, a)
    /\ fn' = "generate_response"
    /\ pc' = "done"
    /\ UNCHANGED <<text, chunk_size, overlap, child_size, pos, chunk_id, chunks>>
    /\ UNCHANGED sessionVars

NextGenerate == CallRunGuardrails \/ GenerateResponse

SpecGenerate == InitFlask /\ [][NextGenerate]_vars

\* the chunks of the call that share a lowercase word with its query
SharingChunks ==
    {i \in 1..Len(args.chunks) :
        \E j \in 1..Len(args.query), k \in 1..Len(args.chunks[i]) :
            Lower(args.query[j]) = Lower(args.chunks[i][k])}

\* C27: the context-relevance finding of run_guardrails has status pass
\* when the fraction of chunks sharing a lowercase word with the query is
\* at least 0.7, warning when it is at least 0.4 and below 0.7, and fail
\* otherwise, an empty chunk list included; a query sharing no word with
\* any of 2 chunks gives fail with a message citing 0%.
C27_RelevanceStatus ==
    fn = "run_guardrails" =>
        LET n == Len(args.chunks)
            k == Cardinality(SharingChunks)
            finding == result[1]
        IN  /\ finding.id = "context-relevance"
            /\ finding.status =
                  IF n > 0 /\ 10 * k >= 7 * n THEN "pass"
                  ELSE IF n > 0 /\ 10 * k >= 4 * n THEN "warning"
                  ELSE "fail"
            /\ (n = 2 /\ k = 0) =>
                  /\ finding.status = "fail"
                  /\ finding.message.percent = 0

C27_Witness ==
    /\ fn = "run_guardrails"
    /\ args.query = <<"b">>
    /\ args.chunks = <<<<"A">>, <<"c">>>>
    /\ result[1].status = "fail"
    /\ result[1].message = [prefix |-> "Low relevance: ", percent |-> 0, suffix |-> "%"]

\* a call of the generation failed: the client is not configured, the
\* model could not be initialised, or llm.invoke raised
GenerationFailed ==
    \/ ~bedrock_available
    \/ args.init_fails
    \/ args.invoke_fails

\* C28: for every way the generation can fail, generate_response answers
\* with a normal response whose generated text is a descriptive error
\* message, together with the guardrail findings and the token estimates
\* of the assembled prompt, and with no request-level error.
C28_FailureIsReported ==
    (fn = "generate_response" /\ GenerationFailed) =>
        /\ result.status = 200
        /\ result.generated_response.error
        /\ Len(result.guardrail_results) = 2
        /\ result.token_usage.prompt_tokens = TokenEstimate(args.prompt_words)

----------------------------------------------------------------------------
(* The searches of a session and the process-document call before them *)

\* C30: in the Flask backend a search returns results only if the most
\* recent completed process-document call stored a non-empty chunk set
\* together with bedrock embeddings; in the initial state and after a
\* process-document call that produced no chunks or whose embedding failed,
\* even if an earlier call had succeeded, every search returns an error.
C30_SearchNeedsLastProcess ==
    (Answered /\ req[Client].kind = "search" /\ req[Client].status = 200) =>
        /\ result # None
        /\ result[1].status = 200
        /\ result[1].chunks > 0
        /\ result[1].method = "bedrock"

====
